---- MODULE Spec2Model ----
(***************************************************************************)
(* Decision pipeline of the LLM Incident Commander: the sliding window     *)
(* rate limiter (app/rate_limiter.py) and the /ask handler                 *)
(* (app/routes.py) with retrieval (app/rag.py) and judge (app/judge.py),   *)
(* and the telemetry circuit breaker with its retry wrapper                *)
(* (app/datadog_resilience.py).                                            *)
(*                                                                         *)
(* Time is counted in whole clock ticks.  Scores and fractions are         *)
(* integers in hundredths (0.7 is 70).                                     *)
(***************************************************************************)
EXTENDS Integers, Sequences, FiniteSets, TLC

(* ---------------------------- bounds ----------------------------------- *)
\* last clock value explored
MaxTime == 4
\* is_allowed()/current_count() invocations per run of the threaded limiter
MaxCalls == 4
\* is_allowed()/current_count() invocations per run under the virtual clock
MaxSeqCalls == 5
\* last value of the virtual clock (the scenario of the spec needs t = 11)
MaxVirtualTime == 11

Threads == {"t1", "t2"}

\* (max_calls, window_seconds) pairs the threaded limiter is constructed with
LimiterConfigs == {<<0, 2>>, <<1, 1>>, <<1, 2>>, <<2, 2>>}

\* (max_calls, window_seconds) pairs used under the virtual clock
VirtualConfigs == {<<3, 10>>, <<1, 2>>, <<2, 3>>, <<0, 2>>}

VARIABLES
    max_calls,        \* SlidingWindowRateLimiter.max_calls
    window_seconds,   \* SlidingWindowRateLimiter.window_seconds
    timestamps,       \* SlidingWindowRateLimiter._timestamps (deque, left = head)
    lock,             \* SlidingWindowRateLimiter._lock: "free" or the holding thread
    clock,            \* time.time()
    tpc,              \* per thread: position inside is_allowed / current_count
    top,              \* per thread: the method being executed
    tnow,             \* per thread: the time read by _cleanup_old_timestamps
    tbefore,          \* per thread: number of accepted calls when it purged
    tres,             \* per thread: value about to be returned
    accepted,         \* history: timestamps appended by is_allowed, in order
    calls,            \* history: completed is_allowed calls: time, result, number
                      \* of accepted calls before and after it
    ncalls,           \* number of invocations started
    cfg,              \* app.config.config (read at start, never changed)
    rpc,              \* per request task: the await it is suspended at
    body,             \* per request: the JSON body that was posted
    req,              \* per request: the object bound to req in ask()
    rag,              \* per request: rag_result
    dec,              \* per request: should_invoke_llm and the reasons (and, for
                      \* the claims, the accepted calls in the window when
                      \* the guardrails ran)
    gen,              \* per request: what the generative call produced
    resp,             \* per request: the response or error sent back
    stat,             \* per request: calls made and metrics emitted
    gen_started,      \* history: start times of the generative answer calls
    bg_tasks,         \* detached judge tasks created and not yet finished
    nreq,             \* number of requests received
    scan,             \* per request: injection_scan
    retrieval,        \* per request: what the vector backend did during
                      \* retrieve_context
    failure_threshold,\* CircuitBreaker.failure_threshold
    timeout,          \* CircuitBreaker.timeout
    state,            \* CircuitBreaker.state
    failure_count,    \* CircuitBreaker.failure_count
    last_failure_time,\* CircuitBreaker.last_failure_time (NoTime is None)
    max_retries,      \* retry_with_backoff(max_retries)
    wpc,              \* position of the caller inside wrapper()
    attempt,          \* wrapper: loop variable
    delay,            \* wrapper: delay
    last_exception,   \* wrapper: last_exception
    wrun,             \* history: what the wrapper call did so far
    bcall,            \* history: the last CircuitBreaker.call
    nwcalls,          \* number of wrapper calls started
    twins,            \* two copies of the limiter and of the breaker that
                      \* serve the same two requests in opposite orders
    costed,           \* the last Config.calculate_cost call and its result
    access,           \* the last access to the limiter: method, time, deque
                      \* before it, value returned; number of accesses
    parsed,           \* the last run of the judge on a response text and its result
    caller,           \* per thread: its position inside CircuitBreaker.call, what its wrapped function does, the failure_count it read
    tally,            \* history: invocations that raised, resets of failure_count, calls started
    capped,           \* the last generation_config built for an answer call
    guarded           \* what the guardrails did with the last request

limiterVars == <<max_calls, window_seconds, timestamps, clock>>
threadVars == <<lock, tpc, top, tnow, tbefore, tres, calls, ncalls>>
askVars == <<cfg, rpc, body, req, rag, dec, gen, resp, stat, gen_started,
             bg_tasks, nreq, scan, retrieval>>

pureVars == <<twins, costed, access, parsed, caller, tally, capped, guarded>>

breakerVars == <<failure_threshold, timeout, state, failure_count,
                 last_failure_time, max_retries, wpc, attempt, delay,
                 last_exception, wrun, bcall, nwcalls>>

vars == <<max_calls, window_seconds, timestamps, lock, clock, tpc, top, tnow,
          tbefore, tres, accepted, calls, ncalls, cfg, rpc, body, req, rag,
          dec, gen, resp, stat, gen_started, bg_tasks, nreq, scan,
          retrieval, failure_threshold, timeout, state, failure_count,
          last_failure_time, max_retries, wpc, attempt, delay,
          last_exception, wrun, bcall, nwcalls, twins, costed, access,
          parsed,
          caller,
          tally,
          capped,
          guarded>>

(* ------------------- SlidingWindowRateLimiter -------------------------- *)

\* a purge that also drops the entry that is exactly window_seconds old
RECURSIVE cleanup_drops_boundary(_, _)
cleanup_drops_boundary(ts, cutoff) ==
    IF ts # <<>> /\ Head(ts) <= cutoff
    THEN cleanup_drops_boundary(Tail(ts), cutoff)
    ELSE ts

\* while self._timestamps and self._timestamps[0] < cutoff: popleft()
RECURSIVE cleanup_old_timestamps(_, _)
cleanup_old_timestamps(ts, cutoff) ==
    IF ts # <<>> /\ Head(ts) < cutoff
    THEN cleanup_old_timestamps(Tail(ts), cutoff)
    ELSE ts

\* a limit test that lets one call too many through
limit_reached_off_by_one(ts, mc) == Len(ts) > mc

\* if len(self._timestamps) >= self.max_calls: return False
limit_reached(ts, mc) == Len(ts) >= mc

\* a lock that never blocks
lock_never_blocks(l) == TRUE

\* with self._lock: entry is possible only while nobody holds the lock
lock_available(l) == l = "free"

\* is_allowed() executed without interruption at time now:
\* the deque it leaves and the value it returns
is_allowed(ts, now, mc, w) ==
    LET kept == cleanup_old_timestamps(ts, now - w)
    IN  IF limit_reached(kept, mc)
        THEN [ts |-> kept, res |-> FALSE]
        ELSE [ts |-> Append(kept, now), res |-> TRUE]

\* current_count() executed without interruption at time now
current_count(ts, now, w) ==
    LET kept == cleanup_old_timestamps(ts, now - w)
    IN  [ts |-> kept, res |-> Len(kept)]


\* usage_percentage(): current_count() / max_calls as the fraction num/den,
\* 0.0 when max_calls is not positive
usage_percentage(ts, now, mc, w) ==
    LET c == current_count(ts, now, w)
    IN  [ts |-> c.ts,
         res |-> IF mc > 0 THEN [num |-> c.res, den |-> mc]
                 ELSE [num |-> 0, den |-> 1]]

\* emit_metrics(): current_count(), then usage_percentage(); the gauges
\* llm.rate_limit.current_count and llm.cost.risk_signal (in hundredths)
emit_metrics(ts, now, mc, w) ==
    LET c == current_count(ts, now, w)
        u == usage_percentage(c.ts, now, mc, w)
    IN  [ts |-> u.ts,
         res |-> [current_count |-> c.res,
                  risk_signal |->
                      IF u.res.num * 10 >= 9 * u.res.den THEN 100
                      ELSE IF u.res.num * 2 >= u.res.den THEN 50
                      ELSE 0]]

(* ----------------------------- /ask ------------------------------------ *)

\* request tasks that may be in flight together
Requests == {1, 2}
\* requests received per run
MaxRequests == 2
\* last clock value explored while requests are served
MaxAskTime == 2
\* window of the limiter built by init_routes (3600 s), in clock ticks
AskWindowTicks == 1

\* config.LLM_SIMILARITY_THRESHOLD (0.7)
LLM_SIMILARITY_THRESHOLD == 70
\* routes.py: final_hallucination_score > 0.6
BLOCK_HALLUCINATION_ABOVE == 60
\* routes.py: grounding_score_val < 0.4
BLOCK_GROUNDING_BELOW == 40
\* judge.py: eval_data.get("hallucination_score", 0.0)
DEFAULT_HALLUCINATION_SCORE == 0
\* judge.py: eval_data.get("grounding_coverage", 1.0)
DEFAULT_GROUNDING_COVERAGE == 100

\* a key the judge's JSON object does not have
Missing == -1
\* no value (Python None) where a number is expected
NoScore == -2

None == <<>>

\* the fields AskRequest declares
AskRequestFields == {"question", "temperature", "max_tokens", "test_mode"}

TestModes == {"none", "hallucination", "cost"}

\* JSON bodies posted to /ask (the keys the handler's decisions depend on)
Bodies == [needs_reasoning : BOOLEAN, test_mode : TestModes]

\* AskRequest(**body): pydantic keeps the declared fields and ignores the rest
AskRequest(b) == [f \in (DOMAIN b) \cap AskRequestFields |-> b[f]]

\* what ask() may receive as req for body b: the AskRequest parsed from it,
\* or an object exposing every attribute the handler reads
RequestObjects(b) == {AskRequest(b), b}

\* values of the configuration the pipeline reads
AskConfigs == [ENABLE_LLM_GENERATION : BOOLEAN,
               SAFE_MODE : BOOLEAN,
               VECTOR_SEARCH_READY : BOOLEAN,
               LLM_PANIC_THRESHOLD : {90, 150}]

\* config.LLM_RATE_LIMIT_PER_HOUR
RateLimits == {0, 1, 2}

\* Config.is_vector_search_available()
is_vector_search_available(c) == ~c.SAFE_MODE /\ c.VECTOR_SEARCH_READY

\* similarity scores a vector search may return as best_score
VectorScores == {69, 70}

\* what the security scan and the keyword matching see in req.question:
\* the instruction-override and role-manipulation patterns it matches,
\* whether it is longer than 2000 characters, whether it contains a keyword
\* of INCIDENT_KB
Questions ==
    {[override_patterns |-> sc[1], role_patterns |-> sc[2], long |-> sc[3],
      keyword |-> kw] :
         sc \in {<<0, 0, FALSE>>, <<1, 0, FALSE>>, <<0, 1, TRUE>>,
                 <<1, 1, TRUE>>},
         kw \in BOOLEAN}

\* scan_for_prompt_injection(question)
scan_for_prompt_injection(question) ==
    LET risk_score == 40 * question.override_patterns
                      + 30 * question.role_patterns
                      + (IF question.long THEN 30 ELSE 0)
    IN  [injection_risk_score |-> IF risk_score < 100 THEN risk_score ELSE 100,
         is_suspicious |-> risk_score >= 50]

\* what get_vector_store() and similarity_search_with_score can do: no
\* store, no answer within 10 seconds, an exception, an empty list, or
\* documents whose best similarity is score
BackendFailures == {"store_unavailable", "timeout", "error", "no_results"}
Backends == {[kind |-> k, score |-> 0] : k \in BackendFailures}
            \cup {[kind |-> "results", score |-> sc] : sc \in VectorScores}

\* _retrieve_context_fallback(question)
retrieve_context_fallback(question) ==
    IF question.keyword
    THEN [method |-> "fallback", best_score |-> 50, context |-> TRUE]
    ELSE [method |-> "fallback", best_score |-> 0, context |-> FALSE]

\* a retrieval whose 10 second timeout disables retrieval for the request
retrieve_context_timeout_disables(c, question, test_mode, backend) ==
    IF c.SAFE_MODE \/ ~is_vector_search_available(c) \/ backend.kind = "timeout"
    THEN [method |-> "disabled", best_score |-> 0, context |-> FALSE]
    ELSE IF test_mode = "hallucination"
    THEN [method |-> "test_mode", best_score |-> 0, context |-> TRUE]
    ELSE IF backend.kind = "results"
    THEN [method |-> "vector_search", best_score |-> backend.score,
          context |-> TRUE]
    ELSE retrieve_context_fallback(question)

\* retrieve_context(question, k, test_mode) when the vector backend does
\* backend
retrieve_context_from(c, question, test_mode, backend) ==
    IF c.SAFE_MODE \/ ~is_vector_search_available(c)
    THEN [method |-> "disabled", best_score |-> 0, context |-> FALSE]
    ELSE IF test_mode = "hallucination"
    THEN [method |-> "test_mode", best_score |-> 0, context |-> TRUE]
    ELSE IF backend.kind = "results"
    THEN [method |-> "vector_search", best_score |-> backend.score,
          context |-> TRUE]
    ELSE retrieve_context_fallback(question)

\* retrieve_context(question, k, test_mode): the RagResults it can return
retrieve_context(c, test_mode) ==
    {retrieve_context_from(c, q, test_mode, bk) :
         q \in Questions, bk \in Backends}

\* RagResult.is_disabled
is_disabled(rg) == rg.method = "disabled"

\* a panic check that counts as a call
is_panic_threshold_records(ts, now, mc, w, p) ==
    LET c == current_count(ts, now, w)
    IN  [ts |-> Append(c.ts, now),
         res |-> IF mc > 0 THEN c.res * 100 >= p * mc ELSE 0 >= p]

\* usage_percentage() >= panic_threshold, after the purge of current_count()
\* a limiter whose panic test is strict: usage exactly at the threshold
\* is not yet panic
is_panic_threshold_strict(ts, now, mc, w, p) ==
    LET c == current_count(ts, now, w)
    IN  [ts |-> c.ts,
         res |-> IF mc > 0 THEN c.res * 100 > p * mc ELSE 0 > p]

is_panic_threshold(ts, now, mc, w, p) ==
    LET c == current_count(ts, now, w)
    IN  [ts |-> c.ts,
         res |-> IF mc > 0 THEN c.res * 100 >= p * mc ELSE 0 >= p]

\* routing that looks at the similarity score before the overrides
route_similarity_first(rq, rg) ==
    IF rg.best_score >= LLM_SIMILARITY_THRESHOLD
    THEN [should_invoke |-> FALSE, invocation_reason |-> None,
          skip_reason |-> <<"high_similarity", rg.best_score>>]
    ELSE IF rq.needs_reasoning
    THEN [should_invoke |-> TRUE, invocation_reason |-> <<"explicit_request">>,
          skip_reason |-> None]
    ELSE IF rq.test_mode \in {"hallucination", "cost"}
    THEN [should_invoke |-> TRUE,
          invocation_reason |-> <<"test_mode", rq.test_mode>>,
          skip_reason |-> None]
    ELSE [should_invoke |-> TRUE,
          invocation_reason |-> <<"low_similarity", rg.best_score>>,
          skip_reason |-> None]

\* routing that treats a score equal to the threshold as low
route_threshold_exclusive(rq, rg) ==
    IF rq.needs_reasoning
    THEN [should_invoke |-> TRUE, invocation_reason |-> <<"explicit_request">>,
          skip_reason |-> None]
    ELSE IF rq.test_mode \in {"hallucination", "cost"}
    THEN [should_invoke |-> TRUE,
          invocation_reason |-> <<"test_mode", rq.test_mode>>,
          skip_reason |-> None]
    ELSE IF rg.best_score <= LLM_SIMILARITY_THRESHOLD
    THEN [should_invoke |-> TRUE,
          invocation_reason |-> <<"low_similarity", rg.best_score>>,
          skip_reason |-> None]
    ELSE [should_invoke |-> FALSE, invocation_reason |-> None,
          skip_reason |-> <<"high_similarity", rg.best_score>>]

\* routing that answers a suspicious question from retrieval only
route_suspicious_to_vector(rq, rg) ==
    IF scan_for_prompt_injection(rq.question).is_suspicious
    THEN [should_invoke |-> FALSE, invocation_reason |-> None,
          skip_reason |-> <<"high_similarity", rg.best_score>>]
    ELSE IF rq.needs_reasoning
    THEN [should_invoke |-> TRUE, invocation_reason |-> <<"explicit_request">>,
          skip_reason |-> None]
    ELSE IF rq.test_mode \in {"hallucination", "cost"}
    THEN [should_invoke |-> TRUE,
          invocation_reason |-> <<"test_mode", rq.test_mode>>,
          skip_reason |-> None]
    ELSE IF rg.best_score < LLM_SIMILARITY_THRESHOLD
    THEN [should_invoke |-> TRUE,
          invocation_reason |-> <<"low_similarity", rg.best_score>>,
          skip_reason |-> None]
    ELSE [should_invoke |-> FALSE, invocation_reason |-> None,
          skip_reason |-> <<"high_similarity", rg.best_score>>]

\* STEP 2: should_invoke_llm, llm_invocation_reason, llm_skip_reason
route(rq, rg) ==
    IF rq.needs_reasoning
    THEN [should_invoke |-> TRUE, invocation_reason |-> <<"explicit_request">>,
          skip_reason |-> None]
    ELSE IF rq.test_mode \in {"hallucination", "cost"}
    THEN [should_invoke |-> TRUE,
          invocation_reason |-> <<"test_mode", rq.test_mode>>,
          skip_reason |-> None]
    ELSE IF rg.best_score < LLM_SIMILARITY_THRESHOLD
    THEN [should_invoke |-> TRUE,
          invocation_reason |-> <<"low_similarity", rg.best_score>>,
          skip_reason |-> None]
    ELSE [should_invoke |-> FALSE, invocation_reason |-> None,
          skip_reason |-> <<"high_similarity", rg.best_score>>]

\* the outcome of the guardrail chain: the decision, the guardrails that were
\* evaluated, whether is_allowed() returned True, the deque, the skip metrics
GuardrailResult(d, invoke, skip, evaluated, allowed, ts, skipped) ==
    [should_invoke |-> invoke,
     invocation_reason |-> d.invocation_reason,
     skip_reason |-> skip,
     evaluated |-> evaluated,
     allowed |-> allowed,
     ts |-> ts,
     skipped |-> skipped]

\* guardrails that ask the limiter before they look at the panic threshold
guardrails_rate_limit_first(d, c, ts, now, mc, w) ==
    IF ~d.should_invoke
    THEN GuardrailResult(d, FALSE, d.skip_reason, <<>>, FALSE, ts, <<>>)
    ELSE IF ~c.ENABLE_LLM_GENERATION
    THEN GuardrailResult(d, FALSE, <<"llm_disabled">>, <<"kill_switch">>, FALSE,
                         ts, <<"disabled">>)
    ELSE LET a == is_allowed(ts, now, mc, w)
         IN  IF ~a.res
             THEN GuardrailResult(d, FALSE, <<"rate_limited">>,
                                  <<"kill_switch", "rate_limit">>, FALSE, a.ts,
                                  <<"rate_limited">>)
             ELSE LET p == is_panic_threshold(a.ts, now, mc, w,
                                              c.LLM_PANIC_THRESHOLD)
                  IN  IF p.res
                      THEN GuardrailResult(d, FALSE, <<"panic_threshold">>,
                               <<"kill_switch", "rate_limit", "panic">>, TRUE,
                               p.ts, <<"panic_threshold">>)
                      ELSE GuardrailResult(d, TRUE, None,
                               <<"kill_switch", "rate_limit", "panic">>, TRUE,
                               p.ts, <<>>)

\* guardrails in which an override (explicit request, test mode) goes to the
\* model without asking the limiter
guardrails_override_bypass(d, c, ts, now, mc, w) ==
    IF ~d.should_invoke
    THEN GuardrailResult(d, FALSE, d.skip_reason, <<>>, FALSE, ts, <<>>)
    ELSE IF ~c.ENABLE_LLM_GENERATION
    THEN GuardrailResult(d, FALSE, <<"llm_disabled">>, <<"kill_switch">>, FALSE,
                         ts, <<"disabled">>)
    ELSE IF d.invocation_reason[1] # "low_similarity"
    THEN GuardrailResult(d, TRUE, None, <<"kill_switch">>, FALSE, ts, <<>>)
    ELSE LET p == is_panic_threshold(ts, now, mc, w, c.LLM_PANIC_THRESHOLD)
         IN  IF p.res
             THEN GuardrailResult(d, FALSE, <<"panic_threshold">>,
                                  <<"kill_switch", "panic">>, FALSE, p.ts,
                                  <<"panic_threshold">>)
             ELSE LET a == is_allowed(p.ts, now, mc, w)
                  IN  IF ~a.res
                      THEN GuardrailResult(d, FALSE, <<"rate_limited">>,
                               <<"kill_switch", "panic", "rate_limit">>, FALSE,
                               a.ts, <<"rate_limited">>)
                      ELSE GuardrailResult(d, TRUE, None,
                               <<"kill_switch", "panic", "rate_limit">>, TRUE,
                               a.ts, <<>>)

\* "Apply guardrails if LLM would be invoked": kill switch, panic threshold
\* (with the usage_percentage() read of its log line), rate limit
guardrails(d, c, ts, now, mc, w) ==
    IF ~d.should_invoke
    THEN GuardrailResult(d, FALSE, d.skip_reason, <<>>, FALSE, ts, <<>>)
    ELSE IF ~c.ENABLE_LLM_GENERATION
    THEN GuardrailResult(d, FALSE, <<"llm_disabled">>, <<"kill_switch">>, FALSE,
                         ts, <<"disabled">>)
    ELSE LET p == is_panic_threshold(ts, now, mc, w, c.LLM_PANIC_THRESHOLD)
         IN  IF p.res
             THEN GuardrailResult(d, FALSE, <<"panic_threshold">>,
                                  <<"kill_switch", "panic">>, FALSE,
                                  current_count(p.ts, now, w).ts,
                                  <<"panic_threshold">>)
             ELSE LET a == is_allowed(p.ts, now, mc, w)
                  IN  IF ~a.res
                      THEN GuardrailResult(d, FALSE, <<"rate_limited">>,
                               <<"kill_switch", "panic", "rate_limit">>, FALSE,
                               current_count(a.ts, now, w).ts,
                               <<"rate_limited">>)
                      ELSE GuardrailResult(d, TRUE, None,
                               <<"kill_switch", "panic", "rate_limit">>, TRUE,
                               a.ts, <<>>)

\* what the awaited generate_content_async call can do
GenOutcomes == {"ok", "no_usage_metadata", "TimeoutError", "ResourceExhausted",
                "DeadlineExceeded", "GoogleAPICallError", "Exception"}

\* calculate_hallucination_score(answer): min(1.0, hits / 3.0)
HeuristicScores == {0, 100}

\* an except chain that lets an HTTPException raised in the try block through
except_chain_passes_http(exc) ==
    CASE exc = "TimeoutError" -> [error |-> "timeout", code |-> 504]
      [] exc = "ResourceExhausted" -> [error |-> "quota_exceeded", code |-> 429]
      [] exc = "DeadlineExceeded" -> [error |-> "timeout", code |-> 504]
      [] exc = "GoogleAPICallError" -> [error |-> "api_error", code |-> 500]
      [] exc = "HTTPException" ->
             [error |-> "token_metadata_unavailable", code |-> 500]
      [] OTHER -> [error |-> "unexpected", code |-> 500]

\* an except chain whose only clause is "except Exception"
except_chain_untyped(exc) == [error |-> "unexpected", code |-> 500]

\* the except clauses of the generation try block, each ending in
\* _handle_error(span, request_id, start_time, error_type, status_code, ...);
\* HTTPException is an Exception and is caught by the last clause
except_chain(exc) ==
    CASE exc = "TimeoutError" -> [error |-> "timeout", code |-> 504]
      [] exc = "ResourceExhausted" -> [error |-> "quota_exceeded", code |-> 429]
      [] exc = "DeadlineExceeded" -> [error |-> "timeout", code |-> 504]
      [] exc = "GoogleAPICallError" -> [error |-> "api_error", code |-> 500]
      [] OTHER -> [error |-> "unexpected", code |-> 500]

\* a handler that goes on after a response without usage metadata
generation_completed_without_usage(outcome) ==
    outcome \in {"ok", "no_usage_metadata"}

\* the try block of the generative call ended without an exception: the
\* call returned and response.usage_metadata was present
generation_completed(outcome) == outcome = "ok"

\* the exception the try block raises for a generation outcome
raised_by(outcome) ==
    IF outcome = "no_usage_metadata" THEN "HTTPException" ELSE outcome

\* what the judge's generate_content_async call can do: raise, answer
\* without usage metadata, or answer with a text that is a JSON object
\* ("json"), a JSON object inside other text ("wrapped_json"), JSON that is
\* no object ("not_object") or no JSON at all ("garbage")
JudgeVerdictPairs == {<<80, 20>>, <<10, 90>>, <<60, 40>>, <<61, 40>>,
                      <<60, 39>>, <<Missing, Missing>>}

JudgeResponses ==
    {[raises |-> TRUE, usage |-> FALSE, text |-> "garbage",
      hs |-> Missing, gc |-> Missing],
     [raises |-> FALSE, usage |-> FALSE, text |-> "json", hs |-> 80, gc |-> 20],
     [raises |-> FALSE, usage |-> TRUE, text |-> "garbage",
      hs |-> Missing, gc |-> Missing],
     [raises |-> FALSE, usage |-> TRUE, text |-> "not_object",
      hs |-> Missing, gc |-> Missing],
     [raises |-> FALSE, usage |-> TRUE, text |-> "json",
      hs |-> NoScore, gc |-> 20]}
    \cup {[raises |-> FALSE, usage |-> TRUE, text |-> tx, hs |-> v[1], gc |-> v[2]] :
              tx \in {"json", "wrapped_json"}, v \in JudgeVerdictPairs}

NoVerdict == [some |-> FALSE, hallucination_score |-> NoScore,
              grounding_coverage |-> NoScore]

\* a judge that blocks nothing because it reports its defaults
run_judge_always_defaults(jr) ==
    [some |-> TRUE, hallucination_score |-> DEFAULT_HALLUCINATION_SCORE,
     grounding_coverage |-> DEFAULT_GROUNDING_COVERAGE]

\* a judge whose failures count as a verdict of complete fabrication
run_judge_fail_closed(jr) ==
    IF jr.raises \/ ~jr.usage \/ jr.text \in {"garbage", "not_object"}
       \/ jr.hs = NoScore \/ jr.gc = NoScore
    THEN [some |-> TRUE, hallucination_score |-> 100, grounding_coverage |-> 0]
    ELSE [some |-> TRUE,
          hallucination_score |->
              IF jr.hs = Missing THEN DEFAULT_HALLUCINATION_SCORE ELSE jr.hs,
          grounding_coverage |->
              IF jr.gc = Missing THEN DEFAULT_GROUNDING_COVERAGE ELSE jr.gc]

\* run_judge_evaluation_two_stage(...): the dict it returns, or None
\* a judge that reads a missing score as the worst one: hallucination 1.0,
\* grounding 0.0
run_judge_missing_is_worst(jr) ==
    IF jr.raises THEN NoVerdict
    ELSE IF ~jr.usage THEN NoVerdict
    ELSE IF jr.text \in {"garbage", "not_object"} THEN NoVerdict
    ELSE IF jr.hs = NoScore \/ jr.gc = NoScore THEN NoVerdict
    ELSE [some |-> TRUE,
          hallucination_score |-> IF jr.hs = Missing THEN 100 ELSE jr.hs,
          grounding_coverage |-> IF jr.gc = Missing THEN 0 ELSE jr.gc]

run_judge_evaluation_two_stage(jr) ==
    IF jr.raises THEN NoVerdict
    ELSE IF ~jr.usage THEN NoVerdict
    ELSE IF jr.text \in {"garbage", "not_object"} THEN NoVerdict
    ELSE IF jr.hs = NoScore \/ jr.gc = NoScore THEN NoVerdict
    ELSE [some |-> TRUE,
          hallucination_score |->
              IF jr.hs = Missing THEN DEFAULT_HALLUCINATION_SCORE ELSE jr.hs,
          grounding_coverage |->
              IF jr.gc = Missing THEN DEFAULT_GROUNDING_COVERAGE ELSE jr.gc]

\* a block test that also blocks at the thresholds themselves
must_block_inclusive(v) ==
    \/ v.hallucination_score >= BLOCK_HALLUCINATION_ABOVE
    \/ v.grounding_coverage <= BLOCK_GROUNDING_BELOW

\* if final_hallucination_score > 0.6 or grounding_score_val < 0.4
must_block(v) ==
    \/ v.hallucination_score > BLOCK_HALLUCINATION_ABOVE
    \/ v.grounding_coverage < BLOCK_GROUNDING_BELOW

(* the judge's response text, character by character: "{" and "}", "s" for
   the members of the object (the scores among them), "n" for a JSON value
   that is no object, "w" for any text that is no JSON *)
MaxTextLen == 4
Chars == {"{", "}", "s", "n", "w"}
JudgeTexts == UNION {[1..n -> Chars] : n \in 0..MaxTextLen}

\* json.loads(text): the value, or JSONDecodeError (ok is FALSE)
json_loads(text) ==
    IF text = <<"{", "}">>
    THEN [ok |-> TRUE, object |-> TRUE, members |-> FALSE]
    ELSE IF text = <<"{", "s", "}">>
    THEN [ok |-> TRUE, object |-> TRUE, members |-> TRUE]
    ELSE IF text = <<"n">>
    THEN [ok |-> TRUE, object |-> FALSE, members |-> FALSE]
    ELSE [ok |-> FALSE, object |-> FALSE, members |-> FALSE]

\* text.find("{") and text.rfind("}") as positions from 1; 0 is not found
find_open(text) ==
    IF \E i \in DOMAIN text : text[i] = "{"
    THEN CHOOSE i \in DOMAIN text :
             text[i] = "{" /\ \A j \in 1..(i - 1) : text[j] # "{"
    ELSE 0
rfind_close(text) ==
    IF \E i \in DOMAIN text : text[i] = "}"
    THEN CHOOSE i \in DOMAIN text :
             text[i] = "}" /\ \A j \in (i + 1)..Len(text) : text[j] # "}"
    ELSE 0

\* text[start:end] with start = text.find("{"), end = text.rfind("}") + 1
text_from_first_to_last_brace(text) ==
    SubSeq(text, find_open(text), rfind_close(text))

\* judge.py 83-93: json.loads of the text, else of the part from the first
\* "{" to the last "}", else the JSONDecodeError is raised again
parse_judge_text(text) ==
    LET whole == json_loads(text)
        part == json_loads(text_from_first_to_last_brace(text))
    IN  IF whole.ok
        THEN [kind |-> IF whole.object THEN "json" ELSE "not_object",
              members |-> whole.members]
        ELSE IF find_open(text) # 0 /\ rfind_close(text) # 0 /\ part.ok
        THEN [kind |-> IF part.object THEN "wrapped_json" ELSE "not_object",
              members |-> part.members]
        ELSE [kind |-> "garbage", members |-> FALSE]

\* the judge's response as run_judge_evaluation_two_stage reads it
judge_response_of(raises, usage, text, hs, gc) ==
    LET pj == parse_judge_text(text)
    IN  [raises |-> raises, usage |-> usage, text |-> pj.kind,
         hs |-> IF pj.members THEN hs ELSE Missing,
         gc |-> IF pj.members THEN gc ELSE Missing]

\* the exception raised inside the try block of
\* run_judge_evaluation_two_stage, "none" if it ran to a return
judge_try_raises(jr) ==
    IF jr.raises THEN "GoogleAPICallError"
    ELSE IF ~jr.usage THEN "none"
    ELSE IF jr.text = "garbage" THEN "JSONDecodeError"
    ELSE IF jr.text = "not_object" THEN "AttributeError"
    ELSE IF jr.hs = NoScore \/ jr.gc = NoScore THEN "ValueError"
    ELSE "none"

\* a judge that handles only the parse error
judge_except_json_only(exc) ==
    [escapes |-> exc \notin {"none", "JSONDecodeError"},
     metric |-> IF exc = "JSONDecodeError" THEN "error_type:json_parse"
                ELSE "none"]

\* judge.py 166-174: except json.JSONDecodeError / except Exception, both
\* count llm.judge.errors and return None
judge_except(exc) ==
    [escapes |-> FALSE,
     metric |-> IF exc = "none" THEN "none"
                ELSE IF exc = "JSONDecodeError" THEN "error_type:json_parse"
                ELSE "error_type:unknown"]

\* judge.py: if hallucination_score >= 0.7 / if grounding_coverage < 0.6
HIGH_RISK_SCORE == 70
LOW_GROUNDING_COVERAGE == 60

\* what a judge run that ended without a verdict sends out
NoEffects == [metrics |-> {}, create_incident |-> 0, create_case |-> 0]

\* what run_judge_evaluation_two_stage sends out once it has a verdict: the
\* statsd counters of the two warnings; nothing in the package calls
\* create_incident or create_case
judge_effects(v) ==
    IF ~v.some THEN NoEffects
    ELSE [metrics |->
              (IF v.hallucination_score >= HIGH_RISK_SCORE
               THEN {"llm.judge.high_risk_detected"} ELSE {})
              \cup (IF v.grounding_coverage < LOW_GROUNDING_COVERAGE
                    THEN {"llm.judge.low_grounding"} ELSE {}),
          create_incident |-> 0,
          create_case |-> 0]

NoParsed ==
    [called |-> FALSE, raises |-> FALSE, usage |-> FALSE, text |-> <<>>,
     hs |-> Missing, gc |-> Missing, exc |-> "none", escapes |-> FALSE,
     verdict |-> NoVerdict, effects |-> NoEffects]

(* responses *)
NoResponse ==
    [status |-> "none", code |-> 0, error |-> "none", detail |-> {},
     answer |-> "none", tokens |-> "none", cost |-> "none",
     hallucination_score |-> NoScore]

\* an exception nothing catches: the framework answers a bare 500
Unhandled(exc) ==
    [status |-> "error", code |-> 500, error |-> exc, detail |-> {},
     answer |-> "none", tokens |-> "none", cost |-> "none",
     hallucination_score |-> NoScore]

\* raise HTTPException(status_code, detail={"error": error_type, ...})
HttpError(e) ==
    [status |-> "error", code |-> e.code, error |-> e.error,
     detail |-> {"error", "message", "request_id"},
     answer |-> "none", tokens |-> "none", cost |-> "none",
     hallucination_score |-> NoScore]

\* AskResponse(...), HTTP 200
AskResponse(status, answer, tokens, cost, hs) ==
    [status |-> status, code |-> 200, error |-> "none", detail |-> {},
     answer |-> answer, tokens |-> tokens, cost |-> cost,
     hallucination_score |-> hs]

\* a disabled-state response that is cut short when generation is enabled
forced_whenever_enabled(c) == c.ENABLE_LLM_GENERATION

\* STEP 1.5: if config.ENABLE_LLM_GENERATION and not config.SAFE_MODE
forced_without_retrieval(c) == c.ENABLE_LLM_GENERATION /\ ~c.SAFE_MODE

\* STEP 1.5: the response returned when retrieval is disabled
rag_disabled_response ==
    AskResponse("rag_disabled", "disabled_notice", "zero", "zero", 0)

\* a vector-only response that reports the tokens of a generative call
vector_only_response_billed(rg) ==
    AskResponse("vector_only",
                IF rg.context THEN "rag_context" ELSE "no_information",
                "usage", "computed", 0)

\* STEP 3A: the response returned when the model is not invoked
vector_only_response(rg) ==
    AskResponse("vector_only",
                IF rg.context THEN "rag_context" ELSE "no_information",
                "zero", "zero", 0)

\* limiter methods the guardrails called, from the guardrails evaluated
limiter_calls(evaluated) ==
    LET name(g) == IF g = "panic" THEN "is_panic_threshold" ELSE "is_allowed"
    IN  [i \in 1..(Len(evaluated) - 1) |-> name(evaluated[i + 1])]

\* config.LLM_TIMEOUT_SECONDS
LLM_TIMEOUT_SECONDS == 30
\* timeout_val of the cost test mode
COST_TEST_TIMEOUT == 45

\* a cost test mode that keeps the configured timeout
timeout_val_configured(rq) == LLM_TIMEOUT_SECONDS

\* timeout_val passed to asyncio.wait_for
timeout_val(rq) ==
    IF rq.test_mode = "cost" THEN COST_TEST_TIMEOUT ELSE LLM_TIMEOUT_SECONDS

\* a handler that awaits the judge for every request
sync_judge_always(rq) == TRUE

\* if req.test_mode == "hallucination": the judge is awaited
sync_judge(rq) == rq.test_mode = "hallucination"

NoRag == [method |-> "none", best_score |-> 0, context |-> FALSE]
NoDecision ==
    [should_invoke |-> FALSE, invocation_reason |-> None, skip_reason |-> None,
     evaluated |-> <<>>, allowed |-> FALSE, routed |-> FALSE, in_window |-> 0]
NoJudgeResponse ==
    [raises |-> FALSE, usage |-> FALSE, text |-> "none", hs |-> Missing,
     gc |-> Missing]
NoGeneration ==
    [outcome |-> "none", heuristic |-> NoScore, judge |-> NoJudgeResponse,
     verdict |-> NoVerdict, effects |-> NoEffects, timeout_val |-> 0]
NoStat ==
    [ngen |-> 0, njudge |-> 0, nbg |-> 0, skipped |-> <<>>, limiter |-> <<>>]
NoBody == [needs_reasoning |-> FALSE, test_mode |-> "none"]
NoScan == [injection_risk_score |-> Missing, is_suspicious |-> FALSE]
NoRetrieval == [kind |-> "none", score |-> 0]

(* ------------------ CircuitBreaker, retry_with_backoff ------------------ *)

\* wrapper calls per run
MaxWrapperCalls == 3
\* last clock value a wrapper call may start at
MaxBreakerTime == 5

\* last_failure_time = None
NoTime == 0
\* the first value of time.time() (never zero)
FirstTime == 1
\* retry_with_backoff(initial_delay=0.1), in clock ticks
InitialDelay == 1
\* retry_with_backoff(backoff_factor=2)
BackoffFactor == 2

\* (failure_threshold, timeout) pairs a CircuitBreaker is constructed with
BreakerConfigs == {<<1, 1>>, <<2, 1>>, <<2, 2>>, <<3, 2>>}

\* max_retries values the decorator is applied with
RetryCounts == {0, 1, 3}

\* what the wrapped function does when it is invoked
FuncOutcomes == {"ok", "raises"}

\* a breaker that opens one failure late
threshold_reached_late(fc, thr) == fc > thr

\* if self.failure_count >= self.failure_threshold
threshold_reached(fc, thr) == fc >= thr

\* a cooldown that ends as soon as timeout has passed
cooldown_elapsed_inclusive(lft, now, to) == lft # NoTime /\ now - lft >= to

\* a cooldown that never ends
cooldown_elapsed_never(lft, now, to) == lft # NoTime /\ now - lft > to + now

\* self.last_failure_time and (time.time() - self.last_failure_time > self.timeout)
cooldown_elapsed(lft, now, to) == lft # NoTime /\ now - lft > to

\* a success that resets the failure counter in every state
on_success_resets_always(st, fc) ==
    IF st = "HALF_OPEN"
    THEN [state |-> "CLOSED", failure_count |-> 0]
    ELSE [state |-> st, failure_count |-> 0]

\* a success that leaves the probing breaker as it is
on_success_keeps(st, fc) == [state |-> st, failure_count |-> fc]

\* "Success - reset on HALF_OPEN"
\* a breaker whose failure_count decays by one on every success while
\* CLOSED
on_success_decays(st, fc) ==
    IF st = "HALF_OPEN"
    THEN [state |-> "CLOSED", failure_count |-> 0]
    ELSE [state |-> st, failure_count |-> IF fc > 0 THEN fc - 1 ELSE 0]

on_success(st, fc) ==
    IF st = "HALF_OPEN"
    THEN [state |-> "CLOSED", failure_count |-> 0]
    ELSE [state |-> st, failure_count |-> fc]

\* a call whose failed probe leaves last_failure_time as it was
call_failed_probe_keeps_time(st, fc, lft, now, thr, to, f) ==
    LET probing == st = "OPEN" /\ cooldown_elapsed(lft, now, to)
        st1 == IF probing THEN "HALF_OPEN" ELSE st
    IN  IF st = "OPEN" /\ ~probing
        THEN [state |-> st, failure_count |-> fc, last_failure_time |-> lft,
              during |-> st, invoked |-> FALSE, outcome |-> "rejected"]
        ELSE IF f = "ok"
        THEN [state |-> on_success(st1, fc).state,
              failure_count |-> on_success(st1, fc).failure_count,
              last_failure_time |-> lft,
              during |-> st1, invoked |-> TRUE, outcome |-> "returned"]
        ELSE [state |-> IF threshold_reached(fc + 1, thr) THEN "OPEN" ELSE st1,
              failure_count |-> fc + 1,
              last_failure_time |-> IF st1 = "HALF_OPEN" THEN lft ELSE now,
              during |-> st1, invoked |-> TRUE, outcome |-> "raised"]

\* CircuitBreaker.call(func) at time now; f is what func does if invoked
\* a breaker whose rejected calls count as failures for the cooldown: a
\* rejection stores the time of the rejected call
call_rejection_refreshes_time(st, fc, lft, now, thr, to, f) ==
    LET probing == st = "OPEN" /\ cooldown_elapsed(lft, now, to)
        st1 == IF probing THEN "HALF_OPEN" ELSE st
    IN  IF st = "OPEN" /\ ~probing
        THEN [state |-> st, failure_count |-> fc, last_failure_time |-> now,
              during |-> st, invoked |-> FALSE, outcome |-> "rejected"]
        ELSE IF f = "ok"
        THEN [state |-> on_success(st1, fc).state,
              failure_count |-> on_success(st1, fc).failure_count,
              last_failure_time |-> lft,
              during |-> st1, invoked |-> TRUE, outcome |-> "returned"]
        ELSE [state |-> IF threshold_reached(fc + 1, thr) THEN "OPEN" ELSE st1,
              failure_count |-> fc + 1,
              last_failure_time |-> now,
              during |-> st1, invoked |-> TRUE, outcome |-> "raised"]

call(st, fc, lft, now, thr, to, f) ==
    LET probing == st = "OPEN" /\ cooldown_elapsed(lft, now, to)
        st1 == IF probing THEN "HALF_OPEN" ELSE st
    IN  IF st = "OPEN" /\ ~probing
        THEN [state |-> st, failure_count |-> fc, last_failure_time |-> lft,
              during |-> st, invoked |-> FALSE, outcome |-> "rejected"]
        ELSE IF f = "ok"
        THEN [state |-> on_success(st1, fc).state,
              failure_count |-> on_success(st1, fc).failure_count,
              last_failure_time |-> lft,
              during |-> st1, invoked |-> TRUE, outcome |-> "returned"]
        ELSE [state |-> IF threshold_reached(fc + 1, thr) THEN "OPEN" ELSE st1,
              failure_count |-> fc + 1,
              last_failure_time |-> now,
              during |-> st1, invoked |-> TRUE, outcome |-> "raised"]

\* a wrapper that re-raises the last exception when the retries are used up
on_exhausted_reraises(run) ==
    [run EXCEPT !.result = "raised"]

\* "All retries exhausted - fallback to logging": two log lines, return None
on_exhausted(run) ==
    [run EXCEPT !.fallback = @ + 1, !.result = "None"]

\* a wrapper that also sleeps after its last attempt
sleeps_after_every_attempt(att, retries) == att < retries

\* if attempt < max_retries - 1: ... time.sleep(delay)
sleeps_before_retry(att, retries) == att < retries - 1

\* one run of wrapper(): what it did so far; sleeps lists the durations of
\* its time.sleep calls
NoRun ==
    [invoked |-> 0, rejected |-> 0, slept |-> 0, fallback |-> 0,
     result |-> "none", sleeps |-> <<>>]
\* the last call of CircuitBreaker.call: streak is the number of invocations
\* of the wrapped function that raised since the last one that returned;
\* failed_probe is the time of the latest HALF_OPEN invocation that raised,
\* pre_probe the same before this call
NoCall ==
    [t |-> NoTime, pre_state |-> "CLOSED", pre_count |-> 0, pre_lft |-> NoTime,
     during |-> "CLOSED", invoked |-> FALSE, outcome |-> "none",
     streak |-> 0, pre_probe |-> NoTime, failed_probe |-> NoTime]

\* a breaker as constructed and no wrapper call in progress
BreakerIdle ==
    /\ failure_threshold = 5
    /\ timeout = 300
    /\ state = "CLOSED"
    /\ failure_count = 0
    /\ last_failure_time = NoTime
    /\ max_retries = 3
    /\ wpc = "idle"
    /\ attempt = 0
    /\ delay = InitialDelay
    /\ last_exception = "none"
    /\ wrun = NoRun
    /\ bcall = NoCall
    /\ nwcalls = 0

(* ------------- two requests served in either order; cost --------------- *)

\* two requests served together: each acquires the limiter once and makes
\* one wrapped call; the wrapped function of A returns, that of B raises
TwinRequests == {"A", "B"}
wrapped_func(q) == IF q = "A" THEN "ok" ELSE "raises"

NoOrder == [served |-> FALSE, count |-> 0, allowed |-> <<>>,
            state |-> "none", failure_count |-> 0, outcome |-> <<>>]
NoTwins == [phase |-> "none", n |-> 0, ab |-> NoOrder, ba |-> NoOrder]

\* the limiter (ts) and the breaker (st, fc, lft) after q1 and then q2
\* called is_allowed() and CircuitBreaker.call at time now
serve_in_order(q1, q2, ts, st, fc, lft, now, mc, w, thr, to) ==
    LET l1 == is_allowed(ts, now, mc, w)
        l2 == is_allowed(l1.ts, now, mc, w)
        c1 == call(st, fc, lft, now, thr, to, wrapped_func(q1))
        c2 == call(c1.state, c1.failure_count, c1.last_failure_time, now,
                   thr, to, wrapped_func(q2))
    IN  [served |-> TRUE,
         count |-> current_count(l2.ts, now, w).res,
         allowed |-> (q1 :> l1.res) @@ (q2 :> l2.res),
         state |-> c2.state,
         failure_count |-> c2.failure_count,
         outcome |-> (q1 :> c1.outcome) @@ (q2 :> c2.outcome)]

\* Config.GEMINI_PRICING_MAP: USD per 1M tokens in thousandths, which is
\* USD per token in units of 1e-9
GEMINI_PRICING_MAP ==
    [mdl \in {"gemini-2.0-flash"} |->
        [input_per_1m_tokens |-> 75, output_per_1m_tokens |-> 300]]

\* model names calculate_cost is called with
ModelNames == {"gemini-2.0-flash", "gemini-1.5-pro"}

\* token counts calculate_cost is called with
TokenCounts == {0, 1, 2, 3, 7, 1000, 999999, 1000000}

\* round(x, 9) for x given in units of 0.5e-9 USD: the result in units of
\* 1e-9 USD, ties to the even neighbour
round9(halves) ==
    LET q == halves \div 2
    IN  IF halves % 2 = 0 THEN q
        ELSE IF q % 2 = 0 THEN q ELSE q + 1

\* round(x, 6) for x given in units of 0.5e-9 USD, in units of 1e-9 USD
round6(halves) ==
    LET q == halves \div 2000
        rest == halves % 2000
    IN  1000 * (IF rest < 1000 THEN q
                ELSE IF rest > 1000 THEN q + 1
                ELSE IF q % 2 = 0 THEN q ELSE q + 1)

\* a cost rounded to 6 decimals
calculate_cost_micro(input_tokens, output_tokens, mdl) ==
    LET pricing == IF mdl \notin DOMAIN GEMINI_PRICING_MAP
                   THEN GEMINI_PRICING_MAP["gemini-2.0-flash"]
                   ELSE GEMINI_PRICING_MAP[mdl]
        input_cost == 2 * input_tokens * pricing.input_per_1m_tokens
        output_cost == 2 * output_tokens * pricing.output_per_1m_tokens
    IN  round6(input_cost + output_cost)

\* Config.calculate_cost(input_tokens, output_tokens, model), in units of
\* 1e-9 USD; the two partial costs in units of 0.5e-9 USD
calculate_cost(input_tokens, output_tokens, mdl) ==
    LET pricing == IF mdl \notin DOMAIN GEMINI_PRICING_MAP
                   THEN GEMINI_PRICING_MAP["gemini-2.0-flash"]
                   ELSE GEMINI_PRICING_MAP[mdl]
        input_cost == 2 * input_tokens * pricing.input_per_1m_tokens
        output_cost == 2 * output_tokens * pricing.output_per_1m_tokens
    IN  round9(input_cost + output_cost)

NoAccess == [op |-> "none", now |-> 0, before |-> <<>>, res |-> 0, n |-> 0]

NoCost == [called |-> FALSE, input_tokens |-> 0, output_tokens |-> 0,
           model |-> "none", cost |-> 0]

\* AskRequest.max_tokens: None (Missing) or an integer in 1..8192
MaxTokenRequests == {Missing, 1, 512, 1024, 1025, 2800, 8192}

\* Config.LLM_MAX_OUTPUT_TOKENS and Config.LLM_MAX_OUTPUT_TOKENS_CAP as the
\* environment can set them (512 and 1024 by default)
DefaultTokenSettings == {512, 2048}
TokenCapSettings == {256, 1024, 4096}

\* the output tokens cost test mode asks for
COST_TEST_OUTPUT_TOKENS == 2800

\* a handler whose cost test mode asks for its 2800 tokens whatever the cap
max_output_tokens_cost_uncapped(max_tokens, test_mode, dflt, cap) ==
    LET requested_tokens == IF max_tokens = Missing THEN dflt ELSE max_tokens
        capped_tokens == IF requested_tokens <= cap THEN requested_tokens
                         ELSE cap
    IN  IF test_mode = "cost" THEN COST_TEST_OUTPUT_TOKENS ELSE capped_tokens

\* routes.py 286-310: generation_config["max_output_tokens"] as sent with
\* the answer call
max_output_tokens(max_tokens, test_mode, dflt, cap) ==
    LET requested_tokens == IF max_tokens = Missing THEN dflt ELSE max_tokens
        capped_tokens == IF requested_tokens <= cap THEN requested_tokens
                         ELSE cap
    IN  IF test_mode = "cost"
        THEN IF COST_TEST_OUTPUT_TOKENS <= cap THEN COST_TEST_OUTPUT_TOKENS
             ELSE cap
        ELSE capped_tokens

\* no request has reached the guardrails yet
NoGuarded ==
    [seen |-> FALSE, before |-> 0, should_invoke |-> FALSE,
     skip_reason |-> None]

NoCapped ==
    [built |-> FALSE, max_tokens |-> Missing, test_mode |-> "none",
     LLM_MAX_OUTPUT_TOKENS |-> 512, LLM_MAX_OUTPUT_TOKENS_CAP |-> 1024,
     max_output_tokens |-> 0]

\* no thread is inside CircuitBreaker.call
NoCallers == [t \in Threads |-> [pc |-> "idle", f |-> "none", reg |-> 0]]
NoTally == [raised |-> 0, resets |-> 0, started |-> 0]

PureIdle ==
    /\ twins = NoTwins
    /\ costed = NoCost
    /\ access = NoAccess
    /\ parsed = NoParsed
    /\ caller = NoCallers
    /\ tally = NoTally
    /\ capped = NoCapped
    /\ guarded = NoGuarded

\* no request in flight
AskIdle ==
    /\ cfg = [ENABLE_LLM_GENERATION |-> TRUE, SAFE_MODE |-> FALSE,
              VECTOR_SEARCH_READY |-> FALSE, LLM_PANIC_THRESHOLD |-> 90]
    /\ rpc = [r \in Requests |-> "idle"]
    /\ body = [r \in Requests |-> NoBody]
    /\ req = [r \in Requests |-> NoBody]
    /\ rag = [r \in Requests |-> NoRag]
    /\ dec = [r \in Requests |-> NoDecision]
    /\ gen = [r \in Requests |-> NoGeneration]
    /\ resp = [r \in Requests |-> NoResponse]
    /\ stat = [r \in Requests |-> NoStat]
    /\ gen_started = <<>>
    /\ bg_tasks = 0
    /\ nreq = 0
    /\ scan = [r \in Requests |-> NoScan]
    /\ retrieval = [r \in Requests |-> NoRetrieval]

(* ------------- the limiter called from several threads ----------------- *)

InitLimiter ==
    /\ \E c \in LimiterConfigs : max_calls = c[1] /\ window_seconds = c[2]
    /\ timestamps = <<>>
    /\ lock = "free"
    /\ clock = 0
    /\ tpc = [t \in Threads |-> "idle"]
    /\ top = [t \in Threads |-> "none"]
    /\ tnow = [t \in Threads |-> 0]
    /\ tbefore = [t \in Threads |-> 0]
    /\ tres = [t \in Threads |-> FALSE]
    /\ accepted = <<>>
    /\ calls = <<>>
    /\ ncalls = 0
    /\ AskIdle
    /\ BreakerIdle
    /\ PureIdle

\* a thread enters is_allowed() or current_count()
T_Call(t) ==
    /\ tpc[t] = "idle"
    /\ ncalls < MaxCalls
    /\ \E op \in {"is_allowed", "current_count"} : top' = [top EXCEPT ![t] = op]
    /\ tpc' = [tpc EXCEPT ![t] = "lock"]
    /\ ncalls' = ncalls + 1
    /\ UNCHANGED <<max_calls, window_seconds, timestamps, lock, clock, tnow,
                   tbefore, tres, accepted, calls>>
    /\ UNCHANGED askVars
    /\ UNCHANGED breakerVars
    /\ UNCHANGED pureVars

\* with self._lock:
T_Acquire(t) ==
    /\ tpc[t] = "lock"
    /\ lock_available(lock)
    /\ lock' = t
    /\ tpc' = [tpc EXCEPT ![t] = "cleanup"]
    /\ UNCHANGED <<max_calls, window_seconds, timestamps, clock, top, tnow,
                   tbefore, tres, accepted, calls, ncalls>>
    /\ UNCHANGED askVars
    /\ UNCHANGED breakerVars
    /\ UNCHANGED pureVars

\* self._cleanup_old_timestamps()
T_Cleanup(t) ==
    /\ tpc[t] = "cleanup"
    /\ timestamps' = cleanup_old_timestamps(timestamps, clock - window_seconds)
    /\ tnow' = [tnow EXCEPT ![t] = clock]
    /\ tbefore' = [tbefore EXCEPT ![t] = Len(accepted)]
    /\ tpc' = [tpc EXCEPT ![t] = IF top[t] = "is_allowed" THEN "check" ELSE "count"]
    /\ UNCHANGED <<max_calls, window_seconds, lock, clock, top, tres, accepted,
                   calls, ncalls>>
    /\ UNCHANGED askVars
    /\ UNCHANGED breakerVars
    /\ UNCHANGED pureVars

\* if len(self._timestamps) >= self.max_calls: ... return False
T_Check(t) ==
    /\ tpc[t] = "check"
    /\ IF limit_reached(timestamps, max_calls)
       THEN /\ tres' = [tres EXCEPT ![t] = FALSE]
            /\ tpc' = [tpc EXCEPT ![t] = "release"]
       ELSE /\ tpc' = [tpc EXCEPT ![t] = "append"]
            /\ UNCHANGED tres
    /\ UNCHANGED <<max_calls, window_seconds, timestamps, lock, clock, top, tnow,
                   tbefore, accepted, calls, ncalls>>
    /\ UNCHANGED askVars
    /\ UNCHANGED breakerVars
    /\ UNCHANGED pureVars

\* self._timestamps.append(time.time()); return True
T_Append(t) ==
    /\ tpc[t] = "append"
    /\ timestamps' = Append(timestamps, clock)
    /\ accepted' = Append(accepted, clock)
    /\ tres' = [tres EXCEPT ![t] = TRUE]
    /\ tpc' = [tpc EXCEPT ![t] = "release"]
    /\ UNCHANGED <<max_calls, window_seconds, lock, clock, top, tnow, tbefore,
                   calls, ncalls>>
    /\ UNCHANGED askVars
    /\ UNCHANGED breakerVars
    /\ UNCHANGED pureVars

\* return len(self._timestamps)   (current_count)
T_Count(t) ==
    /\ tpc[t] = "count"
    /\ tpc' = [tpc EXCEPT ![t] = "release"]
    /\ UNCHANGED <<max_calls, window_seconds, timestamps, lock, clock, top, tnow,
                   tbefore, tres, accepted, calls, ncalls>>
    /\ UNCHANGED askVars
    /\ UNCHANGED breakerVars
    /\ UNCHANGED pureVars

\* leaving the with block releases the lock; the method returns
T_Release(t) ==
    /\ tpc[t] = "release"
    /\ lock' = "free"
    /\ tpc' = [tpc EXCEPT ![t] = "idle"]
    /\ calls' = IF top[t] = "is_allowed"
                THEN Append(calls, [t |-> tnow[t], res |-> tres[t],
                                    seen |-> tbefore[t], after |-> Len(accepted)])
                ELSE calls
    /\ top' = [top EXCEPT ![t] = "none"]
    /\ tnow' = [tnow EXCEPT ![t] = 0]
    /\ tbefore' = [tbefore EXCEPT ![t] = 0]
    /\ tres' = [tres EXCEPT ![t] = FALSE]
    /\ UNCHANGED <<max_calls, window_seconds, timestamps, clock, accepted, ncalls>>
    /\ UNCHANGED askVars
    /\ UNCHANGED breakerVars
    /\ UNCHANGED pureVars

\* time passes (the clock never goes back)
Tick ==
    /\ clock < MaxTime
    /\ clock' = clock + 1
    /\ UNCHANGED <<max_calls, window_seconds, timestamps, lock, tpc, top, tnow,
                   tbefore, tres, accepted, calls, ncalls>>
    /\ UNCHANGED askVars
    /\ UNCHANGED breakerVars
    /\ UNCHANGED pureVars

NextLimiter ==
    \/ \E t \in Threads : T_Call(t)
    \/ \E t \in Threads : T_Acquire(t)
    \/ \E t \in Threads : T_Cleanup(t)
    \/ \E t \in Threads : T_Check(t)
    \/ \E t \in Threads : T_Append(t)
    \/ \E t \in Threads : T_Count(t)
    \/ \E t \in Threads : T_Release(t)
    \/ Tick

SpecLimiter == InitLimiter /\ [][NextLimiter]_vars


(* --------------- the limiter driven under a virtual clock -------------- *)
(* One caller, each call runs to completion at one instant of the clock    *)
(* (the set-up of the spec's sliding-window test).                         *)

InitVirtual ==
    /\ \E c \in VirtualConfigs : max_calls = c[1] /\ window_seconds = c[2]
    /\ timestamps = <<>>
    /\ lock = "free"
    /\ clock = 0
    /\ tpc = [t \in Threads |-> "idle"]
    /\ top = [t \in Threads |-> "none"]
    /\ tnow = [t \in Threads |-> 0]
    /\ tbefore = [t \in Threads |-> 0]
    /\ tres = [t \in Threads |-> FALSE]
    /\ accepted = <<>>
    /\ calls = <<>>
    /\ ncalls = 0
    /\ AskIdle
    /\ BreakerIdle
    /\ PureIdle

\* rate_limiter.is_allowed()
V_IsAllowed ==
    /\ ncalls < MaxSeqCalls
    /\ LET r == is_allowed(timestamps, clock, max_calls, window_seconds)
           acc == IF r.res THEN Append(accepted, clock) ELSE accepted
       IN  /\ timestamps' = r.ts
           /\ accepted' = acc
           /\ calls' = Append(calls, [t |-> clock, res |-> r.res,
                                      seen |-> Len(accepted), after |-> Len(acc)])
    /\ ncalls' = ncalls + 1
    /\ UNCHANGED <<max_calls, window_seconds, lock, clock, tpc, top, tnow,
                   tbefore, tres>>
    /\ UNCHANGED askVars
    /\ UNCHANGED breakerVars
    /\ UNCHANGED pureVars

\* rate_limiter.current_count()
V_CurrentCount ==
    /\ ncalls < MaxSeqCalls
    /\ timestamps' = current_count(timestamps, clock, window_seconds).ts
    /\ ncalls' = ncalls + 1
    /\ UNCHANGED <<max_calls, window_seconds, lock, clock, tpc, top, tnow,
                   tbefore, tres, accepted, calls>>
    /\ UNCHANGED askVars
    /\ UNCHANGED breakerVars
    /\ UNCHANGED pureVars

\* the virtual clock is advanced
V_Advance ==
    /\ clock < MaxVirtualTime
    /\ clock' = clock + 1
    /\ UNCHANGED <<max_calls, window_seconds, timestamps, lock, tpc, top, tnow,
                   tbefore, tres, accepted, calls, ncalls>>
    /\ UNCHANGED askVars
    /\ UNCHANGED breakerVars
    /\ UNCHANGED pureVars

NextVirtual == V_IsAllowed \/ V_CurrentCount \/ V_Advance

SpecVirtual == InitVirtual /\ [][NextVirtual]_vars


(* ------------------------- the /ask handler ---------------------------- *)
(* ask() runs as one task per request.  A task gives up control only at    *)
(* its awaits (retrieve_context, generate_content_async, the synchronous   *)
(* judge); each action below is the code between two awaits, and the clock *)
(* is read once for such a stretch.                                        *)

\* accepted calls whose timestamp lies in [now - w, now]
InWindow(acc, now, w) ==
    Cardinality({i \in DOMAIN acc : acc[i] >= now - w /\ acc[i] <= now})

\* a task that has built its response returns it before any other task runs
NoneReturning == \A q \in Requests : rpc[q] # "done"

InitAsk ==
    /\ \E mc \in RateLimits : max_calls = mc
    /\ window_seconds = AskWindowTicks
    /\ timestamps = <<>>
    /\ lock = "free"
    /\ clock = 0
    /\ tpc = [t \in Threads |-> "idle"]
    /\ top = [t \in Threads |-> "none"]
    /\ tnow = [t \in Threads |-> 0]
    /\ tbefore = [t \in Threads |-> 0]
    /\ tres = [t \in Threads |-> FALSE]
    /\ accepted = <<>>
    /\ calls = <<>>
    /\ ncalls = 0
    /\ cfg \in AskConfigs
    /\ rpc = [r \in Requests |-> "idle"]
    /\ body = [r \in Requests |-> NoBody]
    /\ req = [r \in Requests |-> NoBody]
    /\ rag = [r \in Requests |-> NoRag]
    /\ dec = [r \in Requests |-> NoDecision]
    /\ gen = [r \in Requests |-> NoGeneration]
    /\ resp = [r \in Requests |-> NoResponse]
    /\ stat = [r \in Requests |-> NoStat]
    /\ gen_started = <<>>
    /\ bg_tasks = 0
    /\ nreq = 0
    /\ scan = [r \in Requests |-> NoScan]
    /\ retrieval = [r \in Requests |-> NoRetrieval]
    /\ BreakerIdle
    /\ PureIdle

\* POST /ask arrives and its task takes the first free slot; the
\* "Request received" log line reads
\* req.needs_reasoning; the security scan and the experiment variant follow,
\* then the task awaits retrieve_context
AskReceiveFrom(r, B) ==
    /\ NoneReturning
    /\ rpc[r] = "idle"
    /\ \A q \in Requests : q < r => rpc[q] # "idle"
    /\ nreq < MaxRequests
    /\ nreq' = nreq + 1
    /\ \E b \in B : \E o \in RequestObjects(b) :
          /\ body' = [body EXCEPT ![r] = b]
          /\ req' = [req EXCEPT ![r] = o]
          /\ IF "needs_reasoning" \in DOMAIN o
             THEN /\ rpc' = [rpc EXCEPT ![r] = "retrieving"]
                  /\ resp' = [resp EXCEPT ![r] = NoResponse]
             ELSE /\ rpc' = [rpc EXCEPT ![r] = "done"]
                  /\ resp' = [resp EXCEPT ![r] = Unhandled("AttributeError")]
    /\ rag' = [rag EXCEPT ![r] = NoRag]
    /\ dec' = [dec EXCEPT ![r] = NoDecision]
    /\ gen' = [gen EXCEPT ![r] = NoGeneration]
    /\ stat' = [stat EXCEPT ![r] = NoStat]
    /\ UNCHANGED <<limiterVars, accepted, cfg, gen_started, bg_tasks>>
    /\ UNCHANGED threadVars
    /\ UNCHANGED breakerVars
    /\ UNCHANGED pureVars

AskReceive(r) ==
    /\ AskReceiveFrom(r, Bodies)
    /\ UNCHANGED <<scan, retrieval>>

\* retrieve_context returned: STEP 1.5 (RAG disabled), STEP 2 (routing and
\* guardrails), rate_limiter.emit_metrics(), then either STEP 3A (the
\* vector-search-only response) or the start of the generative call
AskRouteWith(r, rg) ==
    /\ NoneReturning
    /\ rpc[r] = "retrieving"
    /\ rag' = [rag EXCEPT ![r] = rg]
    /\ IF is_disabled(rg) /\ ~forced_without_retrieval(cfg)
       THEN /\ resp' = [resp EXCEPT ![r] = rag_disabled_response]
            /\ rpc' = [rpc EXCEPT ![r] = "done"]
            /\ UNCHANGED <<timestamps, accepted, dec, stat, gen_started,
                           gen>>
       ELSE LET d == route(req[r], rg)
                g == guardrails(d, cfg, timestamps, clock, max_calls,
                                window_seconds)
            IN  /\ dec' = [dec EXCEPT ![r] =
                              [should_invoke |-> g.should_invoke,
                               invocation_reason |-> g.invocation_reason,
                               skip_reason |-> g.skip_reason,
                               evaluated |-> g.evaluated,
                               allowed |-> g.allowed,
                               routed |-> TRUE,
                               in_window |-> InWindow(accepted, clock,
                                                      window_seconds)]]
                /\ timestamps' = current_count(g.ts, clock, window_seconds).ts
                /\ accepted' = IF g.allowed THEN Append(accepted, clock)
                               ELSE accepted
                /\ IF ~g.should_invoke
                   THEN /\ resp' = [resp EXCEPT ![r] =
                                       vector_only_response(rg)]
                        /\ stat' = [stat EXCEPT
                               ![r].skipped =
                                   g.skipped \o
                                   (IF g.skip_reason # None
                                    THEN <<g.skip_reason[1]>> ELSE <<>>),
                               ![r].limiter =
                                   limiter_calls(g.evaluated)
                                   \o <<"emit_metrics">>]
                        /\ rpc' = [rpc EXCEPT ![r] = "done"]
                        /\ UNCHANGED <<gen_started, gen>>
                   ELSE /\ stat' = [stat EXCEPT
                               ![r].ngen = @ + 1,
                               ![r].limiter =
                                   limiter_calls(g.evaluated)
                                   \o <<"emit_metrics",
                                        "usage_percentage">>]
                        /\ gen_started' = Append(gen_started, clock)
                        /\ gen' = [gen EXCEPT ![r].timeout_val =
                                                  timeout_val(req[r])]
                        /\ rpc' = [rpc EXCEPT ![r] = "generating"]
                        /\ UNCHANGED resp
    /\ UNCHANGED <<max_calls, window_seconds, clock, cfg, body, req,
                   bg_tasks, nreq>>
    /\ UNCHANGED threadVars
    /\ UNCHANGED breakerVars
    /\ UNCHANGED pureVars

AskRoute(r) ==
    /\ \E rg \in retrieve_context(cfg, req[r].test_mode) :
           AskRouteWith(r, rg)
    /\ UNCHANGED <<scan, retrieval>>

\* the generative call is over: strict token accounting and the except
\* chain, then cost, heuristic score and metrics; in hallucination test mode
\* the task awaits the judge, otherwise it creates the detached judge task
\* and returns the answer
AskGenerated(r) ==
    /\ NoneReturning
    /\ rpc[r] = "generating"
    /\ \E out \in GenOutcomes : \E h \in HeuristicScores :
        IF ~generation_completed(out)
        THEN /\ gen' = [gen EXCEPT ![r].outcome = out]
             /\ resp' = [resp EXCEPT ![r] = HttpError(except_chain(raised_by(out)))]
             /\ rpc' = [rpc EXCEPT ![r] = "done"]
             /\ UNCHANGED <<stat, bg_tasks>>
        ELSE /\ gen' = [gen EXCEPT ![r].outcome = out, ![r].heuristic = h]
             /\ IF sync_judge(req[r])
                THEN /\ stat' = [stat EXCEPT ![r].njudge = @ + 1]
                     /\ rpc' = [rpc EXCEPT ![r] = "judging"]
                     /\ UNCHANGED <<resp, bg_tasks>>
                ELSE /\ bg_tasks' = bg_tasks + 1
                     /\ resp' = [resp EXCEPT ![r] =
                            AskResponse("success", "llm_answer", "usage",
                                        "computed", h)]
                     /\ rpc' = [rpc EXCEPT ![r] = "done"]
                     /\ stat' = [stat EXCEPT ![r].nbg = @ + 1]
    /\ UNCHANGED <<limiterVars, accepted, cfg, body, req, rag, dec,
                   gen_started, nreq>>
    /\ UNCHANGED threadVars
    /\ UNCHANGED <<scan, retrieval>>
    /\ UNCHANGED breakerVars
    /\ UNCHANGED pureVars

\* the synchronous judge returned: prevention logic and the final response
AskJudged(r) ==
    /\ NoneReturning
    /\ rpc[r] = "judging"
    /\ \E jr \in JudgeResponses :
        LET v == run_judge_evaluation_two_stage(jr)
        IN  /\ gen' = [gen EXCEPT ![r].verdict = v, ![r].judge = jr,
                                  ![r].effects = judge_effects(v)]
            /\ resp' = [resp EXCEPT ![r] =
                   IF v.some
                   THEN IF must_block(v)
                        THEN AskResponse("blocked", "blocked_notice", "usage",
                                         "computed", v.hallucination_score)
                        ELSE AskResponse("success", "llm_answer", "usage",
                                         "computed", v.hallucination_score)
                   ELSE AskResponse("success", "llm_answer", "usage",
                                    "computed", gen[r].heuristic)]
    /\ rpc' = [rpc EXCEPT ![r] = "done"]
    /\ UNCHANGED <<limiterVars, accepted, cfg, body, req, rag, dec, stat,
                   gen_started, bg_tasks, nreq>>
    /\ UNCHANGED threadVars
    /\ UNCHANGED <<scan, retrieval>>
    /\ UNCHANGED breakerVars
    /\ UNCHANGED pureVars

\* the response has been sent; the task is gone
AskDone(r) ==
    /\ rpc[r] = "done"
    /\ rpc' = [rpc EXCEPT ![r] = "idle"]
    /\ body' = [body EXCEPT ![r] = NoBody]
    /\ req' = [req EXCEPT ![r] = NoBody]
    /\ rag' = [rag EXCEPT ![r] = NoRag]
    /\ dec' = [dec EXCEPT ![r] = NoDecision]
    /\ gen' = [gen EXCEPT ![r] = NoGeneration]
    /\ resp' = [resp EXCEPT ![r] = NoResponse]
    /\ scan' = [scan EXCEPT ![r] = NoScan]
    /\ retrieval' = [retrieval EXCEPT ![r] = NoRetrieval]
    /\ stat' = [stat EXCEPT ![r] = NoStat]
    /\ UNCHANGED <<limiterVars, accepted, cfg, gen_started, bg_tasks, nreq>>
    /\ UNCHANGED threadVars
    /\ UNCHANGED breakerVars
    /\ UNCHANGED pureVars

\* a detached evaluate_with_judge() task ends, whatever its judge call did
BackgroundJudgeEnds ==
    /\ NoneReturning
    /\ bg_tasks > 0
    /\ bg_tasks' = bg_tasks - 1
    /\ UNCHANGED <<limiterVars, accepted, cfg, rpc, body, req, rag, dec, gen,
                   resp, stat, gen_started, nreq>>
    /\ UNCHANGED threadVars
    /\ UNCHANGED <<scan, retrieval>>
    /\ UNCHANGED breakerVars
    /\ UNCHANGED pureVars

\* time passes while tasks are suspended
AskTick ==
    /\ NoneReturning
    /\ clock < MaxAskTime
    /\ clock' = clock + 1
    /\ UNCHANGED <<max_calls, window_seconds, timestamps, accepted>>
    /\ UNCHANGED askVars
    /\ UNCHANGED threadVars
    /\ UNCHANGED breakerVars
    /\ UNCHANGED pureVars

NextAsk ==
    \/ \E r \in Requests : AskReceive(r)
    \/ \E r \in Requests : AskRoute(r)
    \/ \E r \in Requests : AskGenerated(r)
    \/ \E r \in Requests : AskJudged(r)
    \/ \E r \in Requests : AskDone(r)
    \/ BackgroundJudgeEnds
    \/ AskTick

SpecAsk == InitAsk /\ [][NextAsk]_vars

(* ------------- the /ask handler with its scheduling guarantees --------- *)

\* one deployment: generation enabled, vector search ready, one call per
\* window
InitAskFair ==
    /\ InitAsk
    /\ max_calls = 1
    /\ cfg = [ENABLE_LLM_GENERATION |-> TRUE, SAFE_MODE |-> FALSE,
              VECTOR_SEARCH_READY |-> TRUE, LLM_PANIC_THRESHOLD |-> 150]

\* what the awaits of ask() guarantee: retrieval ends (asyncio.wait_for in
\* retrieve_context), the generative call ends (asyncio.wait_for with
\* timeout_val), a built response is returned.  The judge call is awaited
\* without a timeout, so nothing makes AskJudged happen.
FairAsk ==
    \A r \in Requests :
        /\ WF_vars(AskRoute(r))
        /\ WF_vars(AskGenerated(r))
        /\ WF_vars(AskDone(r))

SpecAskFair == InitAskFair /\ [][NextAsk]_vars /\ FairAsk

(* ------ the /ask handler, the question and the vector backend visible --- *)

\* requests received per run
MaxPipelineRequests == 2

\* JSON bodies posted to /ask, the question included
QuestionBodies == [needs_reasoning : BOOLEAN, test_mode : TestModes,
                   question : Questions]

\* whether retrieve_context gets as far as the vector backend
backend_consulted(c, test_mode) ==
    ~c.SAFE_MODE /\ is_vector_search_available(c) /\ test_mode # "hallucination"

InitPipeline == InitAsk

\* POST /ask arrives while no other request is being handled; after the
\* "Request received" log line the handler
\* runs scan_for_prompt_injection(req.question), emits the risk gauge and,
\* for a suspicious question, the warning and the detection counter
P_Receive(r) ==
    /\ nreq < MaxPipelineRequests
    /\ \A q \in Requests : rpc[q] = "idle"
    /\ AskReceiveFrom(r, QuestionBodies)
    /\ scan' = [scan EXCEPT ![r] =
                   IF rpc'[r] = "retrieving"
                   THEN scan_for_prompt_injection(req'[r].question)
                   ELSE NoScan]
    /\ UNCHANGED retrieval

\* retrieve_context returned after the vector backend did bk; the handler
\* goes on as in AskRoute
P_Route(r) ==
    /\ \E bk \in Backends :
          /\ AskRouteWith(r, retrieve_context_from(cfg, req[r].question,
                                                   req[r].test_mode, bk))
          /\ retrieval' = [retrieval EXCEPT ![r] =
                              IF backend_consulted(cfg, req[r].test_mode)
                              THEN bk ELSE NoRetrieval]
    /\ UNCHANGED scan

NextPipeline ==
    \/ \E r \in Requests : P_Receive(r)
    \/ \E r \in Requests : P_Route(r)
    \/ \E r \in Requests : AskGenerated(r)
    \/ \E r \in Requests : AskJudged(r)
    \/ \E r \in Requests : AskDone(r)
    \/ BackgroundJudgeEnds
    \/ AskTick

SpecPipeline == InitPipeline /\ [][NextPipeline]_vars

(* ----------- a caller of a function wrapped by retry_with_backoff ------- *)

LimiterIdle ==
    /\ max_calls = 0
    /\ window_seconds = 0
    /\ timestamps = <<>>
    /\ lock = "free"
    /\ tpc = [t \in Threads |-> "idle"]
    /\ top = [t \in Threads |-> "none"]
    /\ tnow = [t \in Threads |-> 0]
    /\ tbefore = [t \in Threads |-> 0]
    /\ tres = [t \in Threads |-> FALSE]
    /\ accepted = <<>>
    /\ calls = <<>>
    /\ ncalls = 0

InitBreaker ==
    /\ \E c \in BreakerConfigs : failure_threshold = c[1] /\ timeout = c[2]
    /\ max_retries \in RetryCounts
    /\ state = "CLOSED"
    /\ failure_count = 0
    /\ last_failure_time = NoTime
    /\ wpc = "idle"
    /\ attempt = 0
    /\ delay = InitialDelay
    /\ last_exception = "none"
    /\ wrun = NoRun
    /\ bcall = NoCall
    /\ nwcalls = 0
    /\ clock = FirstTime
    /\ LimiterIdle
    /\ AskIdle
    /\ PureIdle

\* wrapper(*args, **kwargs) is entered: delay = initial_delay,
\* last_exception = None
W_Enter ==
    /\ wpc = "idle"
    /\ nwcalls < MaxWrapperCalls
    /\ clock <= MaxBreakerTime
    /\ nwcalls' = nwcalls + 1
    /\ wpc' = "loop"
    /\ attempt' = 0
    /\ delay' = InitialDelay
    /\ last_exception' = "none"
    /\ wrun' = [NoRun EXCEPT !.result = "pending"]
    /\ UNCHANGED <<failure_threshold, timeout, state, failure_count,
                   last_failure_time, max_retries, bcall, clock>>
    /\ UNCHANGED <<max_calls, window_seconds, timestamps, accepted>>
    /\ UNCHANGED threadVars
    /\ UNCHANGED askVars
    /\ UNCHANGED pureVars

\* one pass of the for loop: dd_circuit_breaker.call(lambda: func(...)),
\* returning its result or catching its exception
W_Attempt ==
    /\ wpc = "loop"
    /\ attempt < max_retries
    /\ \E f \in FuncOutcomes :
          LET c == call(state, failure_count, last_failure_time, clock,
                        failure_threshold, timeout, f)
          IN  /\ state' = c.state
              /\ failure_count' = c.failure_count
              /\ last_failure_time' = c.last_failure_time
              /\ bcall' = [t |-> clock, pre_state |-> state,
                           pre_count |-> failure_count,
                           pre_lft |-> last_failure_time,
                           during |-> c.during,
                           invoked |-> c.invoked, outcome |-> c.outcome,
                           streak |-> IF c.outcome = "raised"
                                      THEN bcall.streak + 1
                                      ELSE IF c.outcome = "returned"
                                      THEN 0 ELSE bcall.streak,
                           pre_probe |-> bcall.failed_probe,
                           failed_probe |->
                               IF c.outcome = "raised"
                                  /\ c.during = "HALF_OPEN"
                               THEN clock ELSE bcall.failed_probe]
              /\ IF c.outcome = "returned"
                 THEN /\ wrun' = [wrun EXCEPT !.invoked = @ + 1,
                                              !.result = "value"]
                      /\ wpc' = "idle"
                      /\ UNCHANGED <<attempt, last_exception>>
                 ELSE /\ wrun' = [wrun EXCEPT
                                    !.invoked = IF c.invoked THEN @ + 1 ELSE @,
                                    !.rejected = IF c.invoked THEN @ ELSE @ + 1]
                      /\ last_exception' = c.outcome
                      /\ IF sleeps_before_retry(attempt, max_retries)
                         THEN wpc' = "sleep" /\ attempt' = attempt
                         ELSE wpc' = "loop" /\ attempt' = attempt + 1
    /\ UNCHANGED <<failure_threshold, timeout, max_retries, delay, nwcalls,
                   clock>>
    /\ UNCHANGED <<max_calls, window_seconds, timestamps, accepted>>
    /\ UNCHANGED threadVars
    /\ UNCHANGED askVars
    /\ UNCHANGED pureVars

\* time.sleep(delay); delay *= backoff_factor; next pass of the loop
W_Sleep ==
    /\ wpc = "sleep"
    /\ clock' = clock + delay
    /\ delay' = delay * BackoffFactor
    /\ attempt' = attempt + 1
    /\ wpc' = "loop"
    /\ wrun' = [wrun EXCEPT !.slept = @ + 1, !.sleeps = Append(@, delay)]
    /\ UNCHANGED <<failure_threshold, timeout, state, failure_count,
                   last_failure_time, max_retries, last_exception, bcall,
                   nwcalls>>
    /\ UNCHANGED <<max_calls, window_seconds, timestamps, accepted>>
    /\ UNCHANGED threadVars
    /\ UNCHANGED askVars
    /\ UNCHANGED pureVars

\* the loop ended without a return: fallback log lines, return None
W_Exhausted ==
    /\ wpc = "loop"
    /\ attempt >= max_retries
    /\ wrun' = on_exhausted(wrun)
    /\ wpc' = "idle"
    /\ UNCHANGED <<failure_threshold, timeout, state, failure_count,
                   last_failure_time, max_retries, attempt, delay,
                   last_exception, bcall, nwcalls, clock>>
    /\ UNCHANGED <<max_calls, window_seconds, timestamps, accepted>>
    /\ UNCHANGED threadVars
    /\ UNCHANGED askVars
    /\ UNCHANGED pureVars

\* time passes between two wrapper calls
B_Tick ==
    /\ wpc = "idle"
    /\ clock < MaxBreakerTime
    /\ clock' = clock + 1
    /\ UNCHANGED breakerVars
    /\ UNCHANGED <<max_calls, window_seconds, timestamps, accepted>>
    /\ UNCHANGED threadVars
    /\ UNCHANGED askVars
    /\ UNCHANGED pureVars

NextBreaker == W_Enter \/ W_Attempt \/ W_Sleep \/ W_Exhausted \/ B_Tick

SpecBreaker == InitBreaker /\ [][NextBreaker]_vars

\* wrapper() is straight-line synchronous code: once entered, each pass of
\* its loop, each time.sleep and the code after the loop is reached, given
\* that the wrapped function and time.sleep return
FairWrapper ==
    /\ WF_vars(W_Attempt)
    /\ WF_vars(W_Sleep)
    /\ WF_vars(W_Exhausted)

SpecBreakerFair == InitBreaker /\ [][NextBreaker]_vars /\ FairWrapper

\* no thread is inside the limiter; no wrapper call is running
ThreadsIdle ==
    /\ lock = "free"
    /\ tpc = [t \in Threads |-> "idle"]
    /\ top = [t \in Threads |-> "none"]
    /\ tnow = [t \in Threads |-> 0]
    /\ tbefore = [t \in Threads |-> 0]
    /\ tres = [t \in Threads |-> FALSE]
    /\ calls = <<>>
    /\ ncalls = 0

WrapperIdle ==
    /\ max_retries = 3
    /\ wpc = "idle"
    /\ attempt = 0
    /\ delay = InitialDelay
    /\ last_exception = "none"
    /\ wrun = NoRun
    /\ bcall = NoCall
    /\ nwcalls = 0

(* ------------------ every method of the limiter ------------------------ *)
(* One caller; each method runs to completion at one reading of the clock. *)

\* accesses per run
MaxAccesses == 4
\* last clock value explored
MaxAccessTime == 4

\* (max_calls, window_seconds) pairs of the limiter
AccessConfigs == {<<0, 1>>, <<1, 1>>, <<2, 2>>, <<3, 2>>}

\* panic_threshold arguments, in percent
PanicThresholds == {50, 90}

InitAccess ==
    /\ \E c \in AccessConfigs : max_calls = c[1] /\ window_seconds = c[2]
    /\ timestamps = <<>>
    /\ accepted = <<>>
    /\ clock = 0
    /\ twins = NoTwins
    /\ costed = NoCost
    /\ access = NoAccess
    /\ parsed = NoParsed
    /\ caller = NoCallers
    /\ tally = NoTally
    /\ capped = NoCapped
    /\ guarded = NoGuarded
    /\ ThreadsIdle
    /\ AskIdle
    /\ BreakerIdle

\* the caller runs op, which leaves the deque a.ts and returns a.res
Accessed(op, a) ==
    /\ access.n < MaxAccesses
    /\ timestamps' = a.ts
    /\ access' = [op |-> op, now |-> clock, before |-> timestamps,
                  res |-> a.res, n |-> access.n + 1]
    /\ UNCHANGED <<max_calls, window_seconds, clock, twins, costed, parsed,
                   caller, tally, capped, guarded>>
    /\ UNCHANGED threadVars
    /\ UNCHANGED askVars
    /\ UNCHANGED breakerVars

\* rate_limiter.is_allowed()
A_IsAllowed ==
    LET a == is_allowed(timestamps, clock, max_calls, window_seconds)
    IN  /\ Accessed("is_allowed", a)
        /\ accepted' = IF a.res THEN Append(accepted, clock) ELSE accepted

\* rate_limiter.current_count()
A_CurrentCount ==
    /\ Accessed("current_count",
                current_count(timestamps, clock, window_seconds))
    /\ UNCHANGED accepted

\* rate_limiter.usage_percentage()
A_UsagePercentage ==
    /\ Accessed("usage_percentage",
                usage_percentage(timestamps, clock, max_calls, window_seconds))
    /\ UNCHANGED accepted

\* rate_limiter.is_panic_threshold(panic_threshold)
A_IsPanicThreshold ==
    /\ \E p \in PanicThresholds :
          Accessed("is_panic_threshold",
                   is_panic_threshold(timestamps, clock, max_calls,
                                      window_seconds, p))
    /\ UNCHANGED accepted

\* rate_limiter.emit_metrics()
A_EmitMetrics ==
    /\ Accessed("emit_metrics",
                emit_metrics(timestamps, clock, max_calls, window_seconds))
    /\ UNCHANGED accepted

\* time passes between two accesses
A_Advance ==
    /\ clock < MaxAccessTime
    /\ clock' = clock + 1
    /\ UNCHANGED <<max_calls, window_seconds, timestamps, accepted>>
    /\ UNCHANGED pureVars
    /\ UNCHANGED threadVars
    /\ UNCHANGED askVars
    /\ UNCHANGED breakerVars

NextAccess ==
    \/ A_IsAllowed
    \/ A_CurrentCount
    \/ A_UsagePercentage
    \/ A_IsPanicThreshold
    \/ A_EmitMetrics
    \/ A_Advance

SpecAccess == InitAccess /\ [][NextAccess]_vars

(* ------- the limiter and the breaker serving two requests at once ------- *)

\* operations applied before the two requests arrive
MaxOrderCalls == 3
\* last clock value at which the two requests arrive
MaxOrderTime == 4

\* (max_calls, window_seconds) pairs of the limiter
OrderLimiterConfigs == {<<1, 1>>, <<2, 2>>}

InitOrder ==
    /\ \E c \in OrderLimiterConfigs : max_calls = c[1] /\ window_seconds = c[2]
    /\ \E c \in BreakerConfigs : failure_threshold = c[1] /\ timeout = c[2]
    /\ timestamps = <<>>
    /\ accepted = <<>>
    /\ state = "CLOSED"
    /\ failure_count = 0
    /\ last_failure_time = NoTime
    /\ clock = FirstTime
    /\ twins = [NoTwins EXCEPT !.phase = "shared"]
    /\ costed = NoCost
    /\ access = NoAccess
    /\ parsed = NoParsed
    /\ caller = NoCallers
    /\ tally = NoTally
    /\ capped = NoCapped
    /\ guarded = NoGuarded
    /\ ThreadsIdle
    /\ WrapperIdle
    /\ AskIdle

\* an earlier request acquires the limiter: is_allowed()
O_IsAllowed ==
    /\ twins.phase = "shared"
    /\ twins.n < MaxOrderCalls
    /\ LET a == is_allowed(timestamps, clock, max_calls, window_seconds)
       IN  /\ timestamps' = a.ts
           /\ accepted' = IF a.res THEN Append(accepted, clock) ELSE accepted
    /\ twins' = [twins EXCEPT !.n = @ + 1]
    /\ UNCHANGED <<max_calls, window_seconds, clock, costed, access, parsed,
                   caller, tally, capped, guarded>>
    /\ UNCHANGED threadVars
    /\ UNCHANGED askVars
    /\ UNCHANGED breakerVars

\* an earlier wrapped call goes through CircuitBreaker.call
O_Call ==
    /\ twins.phase = "shared"
    /\ twins.n < MaxOrderCalls
    /\ \E f \in FuncOutcomes :
          LET c == call(state, failure_count, last_failure_time, clock,
                        failure_threshold, timeout, f)
          IN  /\ state' = c.state
              /\ failure_count' = c.failure_count
              /\ last_failure_time' = c.last_failure_time
    /\ twins' = [twins EXCEPT !.n = @ + 1]
    /\ UNCHANGED <<failure_threshold, timeout, max_retries, wpc, attempt,
                   delay, last_exception, wrun, bcall, nwcalls>>
    /\ UNCHANGED <<limiterVars, accepted, costed, access, parsed, caller,
                   tally, capped, guarded>>
    /\ UNCHANGED threadVars
    /\ UNCHANGED askVars

\* the requests A and B are served from the present state of the limiter
\* and of the breaker, once A first and once B first
O_Swap ==
    /\ twins.phase = "shared"
    /\ twins' = [twins EXCEPT
           !.phase = "swapped",
           !.ab = serve_in_order("A", "B", timestamps, state, failure_count,
                                 last_failure_time, clock, max_calls,
                                 window_seconds, failure_threshold, timeout),
           !.ba = serve_in_order("B", "A", timestamps, state, failure_count,
                                 last_failure_time, clock, max_calls,
                                 window_seconds, failure_threshold, timeout)]
    /\ UNCHANGED <<limiterVars, accepted, costed, access, parsed, caller,
                   tally, capped, guarded>>
    /\ UNCHANGED threadVars
    /\ UNCHANGED askVars
    /\ UNCHANGED breakerVars

\* time passes before the two requests arrive
O_Tick ==
    /\ twins.phase = "shared"
    /\ clock < MaxOrderTime
    /\ clock' = clock + 1
    /\ UNCHANGED <<max_calls, window_seconds, timestamps, accepted>>
    /\ UNCHANGED pureVars
    /\ UNCHANGED threadVars
    /\ UNCHANGED askVars
    /\ UNCHANGED breakerVars

NextOrder == O_IsAllowed \/ O_Call \/ O_Swap \/ O_Tick

SpecOrder == InitOrder /\ [][NextOrder]_vars

(* --------------------------- calculate_cost ----------------------------- *)

InitCost ==
    /\ clock = 0
    /\ LimiterIdle
    /\ AskIdle
    /\ BreakerIdle
    /\ PureIdle

\* Config.calculate_cost(input_tokens, output_tokens, model) is called
CalculateCost ==
    /\ \E i \in TokenCounts : \E o \in TokenCounts : \E mdl \in ModelNames :
          costed' = [called |-> TRUE, input_tokens |-> i, output_tokens |-> o,
                     model |-> mdl, cost |-> calculate_cost(i, o, mdl)]
    /\ UNCHANGED <<limiterVars, accepted, twins, access, parsed, caller,
                   tally, capped, guarded>>
    /\ UNCHANGED threadVars
    /\ UNCHANGED askVars
    /\ UNCHANGED breakerVars

NextCost == CalculateCost

(* ------------- the breaker called from several threads ---------------- *)
(* CircuitBreaker.call takes no lock.  Each action below is one read or    *)
(* one write of a field of the breaker by one thread; threads may be       *)
(* switched between any two of them.                                       *)

MaxRaceCalls == 4
MaxRaceTime == 3
RaceConfigs == {<<1, 1>>, <<2, 1>>}

InitRace ==
    /\ \E c \in RaceConfigs : failure_threshold = c[1] /\ timeout = c[2]
    /\ state = "CLOSED"
    /\ failure_count = 0
    /\ last_failure_time = NoTime
    /\ WrapperIdle
    /\ clock = FirstTime
    /\ max_calls = 0
    /\ window_seconds = 0
    /\ timestamps = <<>>
    /\ accepted = <<>>
    /\ ThreadsIdle
    /\ AskIdle
    /\ PureIdle

\* what no step of a thread inside call() touches
RaceFrame ==
    /\ UNCHANGED <<failure_threshold, timeout, max_retries, wpc, attempt,
                   delay, last_exception, wrun, bcall, nwcalls>>
    /\ UNCHANGED <<limiterVars, accepted>>
    /\ UNCHANGED threadVars
    /\ UNCHANGED askVars
    /\ UNCHANGED <<twins, costed, access, parsed, capped, guarded>>

\* thread t moves to position pc
Goto(t, pc) == caller' = [caller EXCEPT ![t].pc = pc]

\* a thread calls dd_circuit_breaker.call(func)
R_Enter(t) ==
    /\ caller[t].pc = "idle"
    /\ tally.started < MaxRaceCalls
    /\ \E f \in FuncOutcomes :
          caller' = [caller EXCEPT ![t] = [pc |-> "check", f |-> f, reg |-> 0]]
    /\ tally' = [tally EXCEPT !.started = @ + 1]
    /\ UNCHANGED <<state, failure_count, last_failure_time>>
    /\ RaceFrame

\* if self.state == "OPEN":
R_CheckState(t) ==
    /\ caller[t].pc = "check"
    /\ Goto(t, IF state = "OPEN" THEN "cooldown" ELSE "func")
    /\ UNCHANGED <<state, failure_count, last_failure_time, tally>>
    /\ RaceFrame

\* if self.last_failure_time and (time.time() - ... > self.timeout):
\* ... else: raise Exception("Circuit breaker is OPEN")
R_CheckCooldown(t) ==
    /\ caller[t].pc = "cooldown"
    /\ IF cooldown_elapsed(last_failure_time, clock, timeout)
       THEN Goto(t, "half_open")
       ELSE caller' = [caller EXCEPT ![t] = NoCallers[t]]
    /\ UNCHANGED <<state, failure_count, last_failure_time, tally>>
    /\ RaceFrame

\* self.state = "HALF_OPEN"
R_SetHalfOpen(t) ==
    /\ caller[t].pc = "half_open"
    /\ state' = "HALF_OPEN"
    /\ Goto(t, "func")
    /\ UNCHANGED <<failure_count, last_failure_time, tally>>
    /\ RaceFrame

\* result = func()
R_Func(t) ==
    /\ caller[t].pc = "func"
    /\ IF caller[t].f = "ok"
       THEN Goto(t, "success") /\ UNCHANGED tally
       ELSE /\ Goto(t, "read_count")
            /\ tally' = [tally EXCEPT !.raised = @ + 1]
    /\ UNCHANGED <<state, failure_count, last_failure_time>>
    /\ RaceFrame

\* if self.state == "HALF_OPEN":  ... return result
R_SuccessCheck(t) ==
    /\ caller[t].pc = "success"
    /\ IF state = "HALF_OPEN"
       THEN Goto(t, "close")
       ELSE caller' = [caller EXCEPT ![t] = NoCallers[t]]
    /\ UNCHANGED <<state, failure_count, last_failure_time, tally>>
    /\ RaceFrame

\* self.state = "CLOSED"
R_Close(t) ==
    /\ caller[t].pc = "close"
    /\ state' = "CLOSED"
    /\ Goto(t, "reset")
    /\ UNCHANGED <<failure_count, last_failure_time, tally>>
    /\ RaceFrame

\* self.failure_count = 0; return result
R_Reset(t) ==
    /\ caller[t].pc = "reset"
    /\ failure_count' = 0
    /\ tally' = [tally EXCEPT !.resets = @ + 1]
    /\ caller' = [caller EXCEPT ![t] = NoCallers[t]]
    /\ UNCHANGED <<state, last_failure_time>>
    /\ RaceFrame

\* self.failure_count += 1, the read of the field
R_ReadCount(t) ==
    /\ caller[t].pc = "read_count"
    /\ caller' = [caller EXCEPT ![t].pc = "write_count",
                                ![t].reg = failure_count]
    /\ UNCHANGED <<state, failure_count, last_failure_time, tally>>
    /\ RaceFrame

\* self.failure_count += 1, the write of the field
R_WriteCount(t) ==
    /\ caller[t].pc = "write_count"
    /\ failure_count' = caller[t].reg + 1
    /\ Goto(t, "set_time")
    /\ UNCHANGED <<state, last_failure_time, tally>>
    /\ RaceFrame

\* self.last_failure_time = time.time()
R_SetTime(t) ==
    /\ caller[t].pc = "set_time"
    /\ last_failure_time' = clock
    /\ Goto(t, "threshold")
    /\ UNCHANGED <<state, failure_count, tally>>
    /\ RaceFrame

\* if self.failure_count >= self.failure_threshold:  ... raise
R_CheckThreshold(t) ==
    /\ caller[t].pc = "threshold"
    /\ IF threshold_reached(failure_count, failure_threshold)
       THEN Goto(t, "open")
       ELSE caller' = [caller EXCEPT ![t] = NoCallers[t]]
    /\ UNCHANGED <<state, failure_count, last_failure_time, tally>>
    /\ RaceFrame

\* self.state = "OPEN"; raise
R_Open(t) ==
    /\ caller[t].pc = "open"
    /\ state' = "OPEN"
    /\ caller' = [caller EXCEPT ![t] = NoCallers[t]]
    /\ UNCHANGED <<failure_count, last_failure_time, tally>>
    /\ RaceFrame

\* time passes
R_Tick ==
    /\ clock < MaxRaceTime
    /\ clock' = clock + 1
    /\ UNCHANGED <<max_calls, window_seconds, timestamps, accepted>>
    /\ UNCHANGED threadVars
    /\ UNCHANGED askVars
    /\ UNCHANGED breakerVars
    /\ UNCHANGED pureVars

NextRace ==
    \/ \E t \in Threads : R_Enter(t)
    \/ \E t \in Threads : R_CheckState(t)
    \/ \E t \in Threads : R_CheckCooldown(t)
    \/ \E t \in Threads : R_SetHalfOpen(t)
    \/ \E t \in Threads : R_Func(t)
    \/ \E t \in Threads : R_SuccessCheck(t)
    \/ \E t \in Threads : R_Close(t)
    \/ \E t \in Threads : R_Reset(t)
    \/ \E t \in Threads : R_ReadCount(t)
    \/ \E t \in Threads : R_WriteCount(t)
    \/ \E t \in Threads : R_SetTime(t)
    \/ \E t \in Threads : R_CheckThreshold(t)
    \/ \E t \in Threads : R_Open(t)
    \/ R_Tick

SpecRace == InitRace /\ [][NextRace]_vars

(* ------------- the guardrails under a stream of requests -------------- *)

\* config.LLM_PANIC_THRESHOLD in hundredths (0.9 by default) and
\* config.LLM_RATE_LIMIT_PER_HOUR as the environment can set them
PanicSettings == {0, 50, 90, 100, 150}
GuardLimits == {0, 1, 2, 3, 4}

\* the limiter's window and the last clock reading, in ticks
GuardWindowTicks == 2
MaxGuardTime == 4

\* the decision of the routing step for a request it sends to the model
InvokeDecision == route([needs_reasoning |-> TRUE], NoRag)

\* the handler with generation enabled and an empty limiter
InitGuard ==
    /\ max_calls \in GuardLimits
    /\ window_seconds = GuardWindowTicks
    /\ timestamps = <<>>
    /\ lock = "free"
    /\ clock = 0
    /\ tpc = [t \in Threads |-> "idle"]
    /\ top = [t \in Threads |-> "none"]
    /\ tnow = [t \in Threads |-> 0]
    /\ tbefore = [t \in Threads |-> 0]
    /\ tres = [t \in Threads |-> FALSE]
    /\ accepted = <<>>
    /\ calls = <<>>
    /\ ncalls = 0
    /\ \E p \in PanicSettings :
           cfg = [ENABLE_LLM_GENERATION |-> TRUE, SAFE_MODE |-> FALSE,
                  VECTOR_SEARCH_READY |-> FALSE, LLM_PANIC_THRESHOLD |-> p]
    /\ rpc = [r \in Requests |-> "idle"]
    /\ body = [r \in Requests |-> NoBody]
    /\ req = [r \in Requests |-> NoBody]
    /\ rag = [r \in Requests |-> NoRag]
    /\ dec = [r \in Requests |-> NoDecision]
    /\ gen = [r \in Requests |-> NoGeneration]
    /\ resp = [r \in Requests |-> NoResponse]
    /\ stat = [r \in Requests |-> NoStat]
    /\ gen_started = <<>>
    /\ bg_tasks = 0
    /\ nreq = 0
    /\ scan = [r \in Requests |-> NoScan]
    /\ retrieval = [r \in Requests |-> NoRetrieval]
    /\ BreakerIdle
    /\ PureIdle

\* one request goes through STEP 2.5 and emit_metrics without a suspension
GuardRequest ==
    /\ LET g == guardrails(InvokeDecision, cfg, timestamps, clock,
                           max_calls, window_seconds)
       IN  /\ timestamps' = current_count(g.ts, clock, window_seconds).ts
           /\ accepted' = IF g.allowed THEN Append(accepted, clock)
                          ELSE accepted
           /\ guarded' = [seen |-> TRUE,
                          before |-> current_count(timestamps, clock,
                                                   window_seconds).res,
                          should_invoke |-> g.should_invoke,
                          skip_reason |-> g.skip_reason]
    /\ UNCHANGED <<max_calls, window_seconds, clock>>
    /\ UNCHANGED <<twins, costed, access, parsed, caller, tally, capped>>
    /\ UNCHANGED threadVars
    /\ UNCHANGED askVars
    /\ UNCHANGED breakerVars

GuardTick ==
    /\ clock < MaxGuardTime
    /\ clock' = clock + 1
    /\ UNCHANGED <<max_calls, window_seconds, timestamps, accepted>>
    /\ UNCHANGED threadVars
    /\ UNCHANGED askVars
    /\ UNCHANGED breakerVars
    /\ UNCHANGED pureVars

NextGuard == GuardRequest \/ GuardTick

SpecGuard == InitGuard /\ [][NextGuard]_vars

(* -------------- the generation_config of the answer call -------------- *)

\* a request about to make its answer call, under some configuration
InitCap ==
    /\ clock = 0
    /\ LimiterIdle
    /\ AskIdle
    /\ BreakerIdle
    /\ twins = NoTwins
    /\ costed = NoCost
    /\ access = NoAccess
    /\ parsed = NoParsed
    /\ caller = NoCallers
    /\ tally = NoTally
    /\ guarded = NoGuarded
    /\ capped \in {[NoCapped EXCEPT !.max_tokens = mt, !.test_mode = tm,
                                     !.LLM_MAX_OUTPUT_TOKENS = d,
                                     !.LLM_MAX_OUTPUT_TOKENS_CAP = c] :
                       mt \in MaxTokenRequests, tm \in TestModes,
                       d \in DefaultTokenSettings, c \in TokenCapSettings}

\* the handler builds generation_config for model.generate_content_async
BuildGenerationConfig ==
    /\ ~capped.built
    /\ capped' = [capped EXCEPT
                     !.built = TRUE,
                     !.max_output_tokens =
                         max_output_tokens(capped.max_tokens, capped.test_mode,
                                           capped.LLM_MAX_OUTPUT_TOKENS,
                                           capped.LLM_MAX_OUTPUT_TOKENS_CAP)]
    /\ UNCHANGED <<limiterVars, accepted, twins, costed, access, parsed,
                   caller, tally, guarded>>
    /\ UNCHANGED threadVars
    /\ UNCHANGED askVars
    /\ UNCHANGED breakerVars

NextCap == BuildGenerationConfig

SpecCap == InitCap /\ [][NextCap]_vars

(* ------------------- the judge run on a response text ------------------ *)

\* scores the judge's JSON object can carry: numbers, or a value float()
\* rejects
JudgeScorePairs == {<<80, 20>>, <<10, 90>>, <<70, 60>>, <<69, 59>>,
                    <<NoScore, 20>>}

\* what the judge model does when it is called: it raises, answers without
\* usage metadata, or answers with a text
JudgeRuns ==
    {[NoParsed EXCEPT !.raises = TRUE]}
    \cup {[NoParsed EXCEPT !.text = text] : text \in JudgeTexts}
    \cup {[NoParsed EXCEPT !.usage = TRUE, !.text = text,
                           !.hs = sc[1], !.gc = sc[2]] :
              text \in JudgeTexts, sc \in JudgeScorePairs}

InitJudge ==
    /\ clock = 0
    /\ LimiterIdle
    /\ AskIdle
    /\ BreakerIdle
    /\ twins = NoTwins
    /\ costed = NoCost
    /\ access = NoAccess
    /\ caller = NoCallers
    /\ tally = NoTally
    /\ capped = NoCapped
    /\ guarded = NoGuarded
    /\ parsed \in JudgeRuns

\* await run_judge_evaluation_two_stage(...)
RunJudge ==
    /\ ~parsed.called
    /\ LET jr == judge_response_of(parsed.raises, parsed.usage, parsed.text,
                                   parsed.hs, parsed.gc)
           exc == judge_try_raises(jr)
           v == run_judge_evaluation_two_stage(jr)
       IN  parsed' = [parsed EXCEPT
                        !.called = TRUE,
                        !.exc = exc,
                        !.escapes = judge_except(exc).escapes,
                        !.verdict = IF judge_except(exc).escapes
                                    THEN NoVerdict ELSE v,
                        !.effects = judge_effects(v)]
    /\ UNCHANGED <<limiterVars, accepted, twins, costed, access, caller,
                   tally, capped, guarded>>
    /\ UNCHANGED threadVars
    /\ UNCHANGED askVars
    /\ UNCHANGED breakerVars

NextJudge == RunJudge

SpecJudge == InitJudge /\ [][NextJudge]_vars

SpecCost == InitCost /\ [][NextCost]_vars

(* ------------------------- helpers for the claims ---------------------- *)

\* number of accepted calls, among the first n, with a timestamp in [lo, hi]
AcceptedIn(n, lo, hi) ==
    Cardinality({i \in 1..n : accepted[i] >= lo /\ accepted[i] <= hi})

InCritical(t) == tpc[t] \in {"cleanup", "check", "append", "count", "release"}

\* C1: at every moment, every closed time interval [a, a + window_seconds]
\* holds at most max_calls timestamps of calls that is_allowed() accepted.
C1_SlidingWindowBudget ==
    \A a \in 0..clock :
        AcceptedIn(Len(accepted), a, a + window_seconds) <= max_calls

\* C1 witness: a call was accepted, a later call was refused, and after the
\* window moved on another call was accepted.
C1_Witness ==
    /\ max_calls >= 1
    /\ Len(accepted) >= 2
    /\ accepted[Len(accepted)] > accepted[1] + window_seconds
    /\ \E i \in DOMAIN calls : ~calls[i].res

\* the deque holds exactly the most recent accepted timestamps, each once
DequeIsSuffixOfAccepted ==
    /\ Len(timestamps) <= Len(accepted)
    /\ timestamps = SubSeq(accepted, Len(accepted) - Len(timestamps) + 1,
                           Len(accepted))

\* the decision of call c as a function of the accepted calls that precede it
DecisionFollowsWindow(c) ==
    c.res = (AcceptedIn(c.seen, c.t - window_seconds, c.t) < max_calls)

\* C3: is_allowed() at time t returns True exactly when fewer than max_calls
\* of the calls accepted before it have a timestamp in [t - window_seconds, t];
\* a True call appends t, a False call appends nothing.  With max_calls = 3
\* and window_seconds = 10: four calls at t = 0 give True, True, True, False
\* and a fifth call at t = 11 gives True.
C3_IsAllowedContract ==
    /\ \A i \in DOMAIN calls :
          /\ DecisionFollowsWindow(calls[i])
          /\ calls[i].res => /\ calls[i].after = calls[i].seen + 1
                             /\ accepted[calls[i].after] = calls[i].t
          /\ ~calls[i].res => calls[i].after = calls[i].seen
    /\ DequeIsSuffixOfAccepted
    /\ (/\ max_calls = 3 /\ window_seconds = 10 /\ Len(calls) >= 4
        /\ \A i \in 1..4 : calls[i].t = 0)
       => /\ \A i \in 1..3 : calls[i].res
          /\ ~calls[4].res
          /\ (Len(calls) >= 5 /\ calls[5].t = 11) => calls[5].res

\* C3 witness: the scenario of the spec has run to its end.
C3_Witness ==
    /\ max_calls = 3 /\ window_seconds = 10
    /\ Len(calls) = 5
    /\ \A i \in 1..4 : calls[i].t = 0
    /\ ~calls[4].res
    /\ calls[5].t = 11 /\ calls[5].res

\* C4: with several threads inside is_allowed()/current_count(), purge,
\* compare and append of one call run with no other call in between: at most
\* one thread is past the lock, every completed call decided as if the calls
\* had run one after the other, the deque holds every unexpired accepted
\* timestamp exactly once, and it never holds more than max_calls entries.
C4_AtomicCriticalSection ==
    /\ \A t1, t2 \in Threads : (t1 # t2) => ~(InCritical(t1) /\ InCritical(t2))
    /\ \A i \in DOMAIN calls : DecisionFollowsWindow(calls[i])
    /\ DequeIsSuffixOfAccepted
    /\ \A i \in 1..(Len(accepted) - Len(timestamps)) :
          accepted[i] < clock - window_seconds
    /\ Len(timestamps) <= max_calls

\* C4 witness: one thread has just taken the last free slot while another
\* thread is waiting for the lock inside is_allowed().
C4_Witness ==
    \E t1, t2 \in Threads :
        /\ t1 # t2
        /\ top[t1] = "is_allowed" /\ tpc[t1] = "release" /\ tres[t1]
        /\ top[t2] = "is_allowed" /\ tpc[t2] = "lock"
        /\ max_calls >= 1 /\ Len(timestamps) = max_calls

(* ------------------------------ /ask claims ---------------------------- *)

Routed(r) == rpc[r] \in {"generating", "judging", "done"} /\ dec[r].routed

GuardrailReasons == {"llm_disabled", "panic_threshold", "rate_limited"}

GenStartedIn(lo, hi) ==
    Cardinality({i \in DOMAIN gen_started :
                    gen_started[i] >= lo /\ gen_started[i] <= hi})

\* C2: a generative answer call is started only by a request for which
\* is_allowed() returned True, and every closed interval of window_seconds
\* holds at most max_calls starts of generative answer calls.
C2_GenerationWithinBudget ==
    /\ \A r \in Requests :
          stat[r].ngen > 0 =>
              dec[r].allowed /\ dec[r].evaluated[Len(dec[r].evaluated)] = "rate_limit"
    /\ \A a \in 0..clock : GenStartedIn(a, a + window_seconds) <= max_calls

\* C2 witness: one request is generating on the last free slot and another
\* request, which asked for the model explicitly, was stopped by the limiter.
C2_Witness ==
    \E r1, r2 \in Requests :
        /\ rpc[r1] = "generating" /\ dec[r1].allowed
        /\ rpc[r2] = "done" /\ dec[r2].routed
        /\ dec[r2].invocation_reason # None
        /\ dec[r2].invocation_reason[1] \in {"explicit_request", "test_mode"}
        /\ dec[r2].skip_reason \in {<<"rate_limited">>, <<"panic_threshold">>}
        /\ stat[r2].ngen = 0

\* the routing decision the priority order prescribes for the posted request
PrescribedRoute(b, rg) ==
    IF b.needs_reasoning THEN [invoke |-> TRUE, reason |-> <<"explicit_request">>]
    ELSE IF b.test_mode \in {"hallucination", "cost"}
    THEN [invoke |-> TRUE, reason |-> <<"test_mode", b.test_mode>>]
    ELSE IF rg.best_score < LLM_SIMILARITY_THRESHOLD
    THEN [invoke |-> TRUE, reason |-> <<"low_similarity", rg.best_score>>]
    ELSE [invoke |-> FALSE, reason |-> <<"high_similarity", rg.best_score>>]

\* C5: every request posted to /ask that is answered by anything but the
\* rag_disabled response was routed, and its routing decision is the one the
\* priority order prescribes: explicit_request if the request set
\* needs_reasoning, else test_mode:<mode>, else low_similarity:<score> below
\* the threshold, else do-not-invoke with high_similarity:<score>.
C5_RoutingPriority ==
    \A r \in Requests :
        (rpc[r] \in {"generating", "judging", "done"}
         /\ resp[r].status # "rag_disabled") =>
            /\ dec[r].routed
            /\ LET want == PrescribedRoute(body[r], rag[r])
               IN  IF want.invoke
                   THEN dec[r].invocation_reason = want.reason
                   ELSE /\ dec[r].invocation_reason = None
                        /\ dec[r].skip_reason = want.reason
                        /\ ~dec[r].should_invoke

\* C6 as stated: whatever the request, best_score >= threshold yields
\* should_invoke = false with a high_similarity reason, and best_score below
\* the threshold yields should_invoke = true unless a guardrail fired.
C6_MonotoneForEveryRequest ==
    \A r \in Requests :
        Routed(r) =>
            IF rag[r].best_score >= LLM_SIMILARITY_THRESHOLD
            THEN /\ ~dec[r].should_invoke
                 /\ dec[r].skip_reason = <<"high_similarity", rag[r].best_score>>
            ELSE \/ dec[r].should_invoke
                 \/ dec[r].skip_reason[1] \in GuardrailReasons

HasOverride(rq) ==
    rq.needs_reasoning \/ rq.test_mode \in {"hallucination", "cost"}

\* C6 amended: for a request without needs_reasoning and without test mode
\* hallucination or cost, best_score >= threshold yields should_invoke =
\* false with reason high_similarity:<score> and best_score below the
\* threshold yields should_invoke = true unless a guardrail fired; a request
\* with such an override is invoked unless a guardrail fired, whatever its
\* score.
C6_MonotoneWithoutOverride ==
    \A r \in Requests :
        Routed(r) =>
            IF ~HasOverride(req[r])
               /\ rag[r].best_score >= LLM_SIMILARITY_THRESHOLD
            THEN /\ ~dec[r].should_invoke
                 /\ dec[r].skip_reason = <<"high_similarity", rag[r].best_score>>
                 /\ dec[r].evaluated = <<>>
            ELSE \/ dec[r].should_invoke
                 \/ dec[r].skip_reason[1] \in GuardrailReasons

\* C6 witness: a request without override whose best score equals the
\* threshold was answered from retrieval with reason high_similarity.
C6_Witness ==
    \E r \in Requests :
        /\ rpc[r] = "done" /\ dec[r].routed
        /\ ~HasOverride(req[r])
        /\ rag[r].best_score = LLM_SIMILARITY_THRESHOLD
        /\ resp[r].status = "vector_only"
        /\ dec[r].skip_reason[1] = "high_similarity"

\* the limiter is at its panic threshold with n calls in the window
AtPanic(n) ==
    IF max_calls > 0 THEN n * 100 >= cfg.LLM_PANIC_THRESHOLD * max_calls
    ELSE 0 >= cfg.LLM_PANIC_THRESHOLD

\* C7: when routing wants the model, the guardrails are evaluated in the
\* order kill switch, panic threshold, rate limit; the reported skip reason
\* is that of the first one that applies, and none after it is evaluated.
C7_GuardrailOrder ==
    \A r \in Requests :
        (Routed(r) /\ dec[r].invocation_reason # None) =>
            LET n == dec[r].in_window
            IN  IF ~cfg.ENABLE_LLM_GENERATION
                THEN /\ dec[r].skip_reason = <<"llm_disabled">>
                     /\ dec[r].evaluated = <<"kill_switch">>
                     /\ ~dec[r].should_invoke
                ELSE IF AtPanic(n)
                THEN /\ dec[r].skip_reason = <<"panic_threshold">>
                     /\ dec[r].evaluated = <<"kill_switch", "panic">>
                     /\ ~dec[r].should_invoke /\ ~dec[r].allowed
                ELSE IF n >= max_calls
                THEN /\ dec[r].skip_reason = <<"rate_limited">>
                     /\ dec[r].evaluated = <<"kill_switch", "panic", "rate_limit">>
                     /\ ~dec[r].should_invoke /\ ~dec[r].allowed
                ELSE /\ dec[r].skip_reason = None
                     /\ dec[r].evaluated = <<"kill_switch", "panic", "rate_limit">>
                     /\ dec[r].should_invoke /\ dec[r].allowed

\* C7 witness: with generation enabled, the limiter was both at the panic
\* threshold and full, and the request was skipped with panic_threshold.
C7_Witness ==
    \E r \in Requests :
        /\ rpc[r] = "done" /\ dec[r].routed
        /\ dec[r].invocation_reason # None
        /\ cfg.ENABLE_LLM_GENERATION
        /\ max_calls >= 1
        /\ AtPanic(dec[r].in_window) /\ dec[r].in_window >= max_calls
        /\ dec[r].skip_reason = <<"panic_threshold">>

\* the judge answered with a JSON object carrying both scores
JudgeGave(r, hs, gc) ==
    /\ rpc[r] = "done" /\ stat[r].njudge > 0
    /\ ~gen[r].judge.raises /\ gen[r].judge.usage
    /\ gen[r].judge.text \in {"json", "wrapped_json"}
    /\ gen[r].judge.hs = hs /\ gen[r].judge.gc = gc

\* C8: in hallucination test mode, a response whose judge verdict has
\* hallucination_score hs and grounding_coverage gc is "blocked" with the
\* blocked notice in place of the answer exactly when hs > 0.6 or gc < 0.4,
\* and otherwise "success" with the answer itself.
C8_BlockingContract ==
    \A r \in Requests :
        \A hs \in {10, 60, 61, 80} : \A gc \in {20, 39, 40, 90} :
            JudgeGave(r, hs, gc) =>
                /\ req[r].test_mode = "hallucination"
                /\ resp[r].hallucination_score = hs
                /\ resp[r].tokens = "usage"
                /\ IF hs > 60 \/ gc < 40
                   THEN resp[r].status = "blocked"
                        /\ resp[r].answer = "blocked_notice"
                   ELSE resp[r].status = "success"
                        /\ resp[r].answer = "llm_answer"

\* C8 witness: the verdict {0.8, 0.2} was given and the response is blocked.
C8_Witness ==
    \E r \in Requests :
        JudgeGave(r, 80, 20) /\ resp[r].status = "blocked"

\* the judge call gave no verdict
JudgeFailed(r) ==
    /\ rpc[r] = "done" /\ stat[r].njudge > 0
    /\ \/ gen[r].judge.raises
       \/ ~gen[r].judge.usage
       \/ gen[r].judge.text = "garbage"

\* C9: in hallucination test mode, a judge call that raises, lacks usage
\* metadata or returns text that is no JSON leaves the request a success
\* with the answer itself and the heuristic hallucination score.
C9_NoVerdictIsSuccess ==
    \A r \in Requests :
        JudgeFailed(r) =>
            /\ resp[r].status = "success" /\ resp[r].code = 200
            /\ resp[r].answer = "llm_answer"
            /\ resp[r].hallucination_score = gen[r].heuristic

\* C9 witness: the judge call raised for an answer with the highest
\* heuristic score, and the response is a success.
C9_Witness ==
    \E r \in Requests :
        /\ JudgeFailed(r) /\ gen[r].judge.raises
        /\ gen[r].heuristic = 100
        /\ resp[r].status = "success"

\* C10: a generative response without usage metadata ends the request with
\* HTTP 500 and error kind token_metadata_unavailable; no token counts are
\* returned and the judge is not called.
C10_FatalMetadataError ==
    \A r \in Requests :
        (rpc[r] = "done" /\ gen[r].outcome = "no_usage_metadata") =>
            /\ resp[r].status = "error" /\ resp[r].code = 500
            /\ resp[r].error = "token_metadata_unavailable"
            /\ resp[r].tokens = "none"
            /\ stat[r].njudge = 0

(* ------------------------ circuit breaker claims ----------------------- *)

\* C11: a failing invocation made while the breaker is CLOSED increments
\* failure_count and records last_failure_time, and it opens the breaker
\* exactly when the new failure_count reaches failure_threshold; so from
\* CLOSED with failure_count 0 the breaker is OPEN after the
\* failure_threshold-th consecutive failure and not before it.
C11_OpensAtThreshold ==
    /\ (bcall.outcome = "raised" /\ bcall.pre_state = "CLOSED") =>
          /\ failure_count = bcall.pre_count + 1
          /\ last_failure_time = bcall.t
          /\ IF bcall.pre_count + 1 >= failure_threshold
             THEN state = "OPEN"
             ELSE state = "CLOSED"
    /\ state = "CLOSED" => failure_count < failure_threshold

\* C11 witness: the third consecutive failure, made at the current time,
\* has just opened a breaker with failure_threshold 3.
C11_Witness ==
    /\ failure_threshold = 3
    /\ bcall.outcome = "raised" /\ bcall.pre_state = "CLOSED"
    /\ bcall.pre_count = 2
    /\ state = "OPEN" /\ failure_count = 3
    /\ last_failure_time = clock

\* C12: a call made while the breaker is OPEN and no more than timeout
\* after last_failure_time raises without invoking the wrapped function and
\* leaves state, failure_count and last_failure_time as they were.
C12_FailFastWhileOpen ==
    (bcall.outcome # "none" /\ bcall.pre_state = "OPEN"
     /\ bcall.t - bcall.pre_lft <= timeout) =>
        /\ bcall.outcome = "rejected" /\ ~bcall.invoked
        /\ state = "OPEN"
        /\ failure_count = bcall.pre_count
        /\ last_failure_time = bcall.pre_lft

\* C12 witness: a call made exactly timeout after the last failure was
\* rejected.
C12_Witness ==
    /\ bcall.pre_state = "OPEN"
    /\ bcall.t - bcall.pre_lft = timeout
    /\ bcall.outcome = "rejected"
    /\ wpc = "sleep"

\* C13: a call made while the breaker is OPEN and more than timeout after
\* last_failure_time invokes the wrapped function with the breaker
\* HALF_OPEN; if the function returns, the breaker is CLOSED with
\* failure_count 0.
C13_ProbeAfterCooldown ==
    (bcall.outcome # "none" /\ bcall.pre_state = "OPEN"
     /\ bcall.t - bcall.pre_lft > timeout) =>
        /\ bcall.invoked /\ bcall.during = "HALF_OPEN"
        /\ bcall.outcome \in {"returned", "raised"}
        /\ bcall.outcome = "returned" =>
              state = "CLOSED" /\ failure_count = 0

\* C13 witness: a call made timeout + 1 after the last failure succeeded
\* and closed the breaker.
C13_Witness ==
    /\ bcall.pre_state = "OPEN"
    /\ bcall.t - bcall.pre_lft = timeout + 1
    /\ bcall.outcome = "returned"
    /\ state = "CLOSED" /\ failure_count = 0

\* C14: a call of the wrapper never ends by raising; when it ends without a
\* result of the wrapped function, every one of its max_retries attempts
\* failed (the function raised or the OPEN breaker rejected it), the
\* fallback was logged once, None was returned and the wrapped function was
\* not invoked for the fallback.
C14_WrapperNeverRaises ==
    /\ wrun.result \in {"none", "pending", "value", "None"}
    /\ wpc = "idle" => wrun.result \in {"none", "value", "None"}
    /\ wrun.result = "None" =>
          /\ wpc = "idle"
          /\ wrun.fallback = 1
          /\ wrun.invoked + wrun.rejected = max_retries
          /\ wrun.slept = IF max_retries = 0 THEN 0 ELSE max_retries - 1
    /\ wrun.result = "value" => wrun.fallback = 0 /\ wrun.invoked >= 1

\* C14 witness: a wrapper call returned None after attempts that failed in
\* both ways: the function raised and the OPEN breaker rejected.
C14_Witness ==
    /\ wpc = "idle" /\ wrun.result = "None"
    /\ wrun.invoked >= 1 /\ wrun.rejected >= 1
    /\ wrun.fallback = 1

(* ----------------------- /ask claims, continued ------------------------ *)

\* the request got its answer without a decision to invoke the model
NotInvoked(r) ==
    /\ rpc[r] = "done"
    /\ \/ resp[r].status = "rag_disabled"
       \/ dec[r].routed /\ ~dec[r].should_invoke

\* C15: a request whose final decision is not to invoke the model (skip
\* reason high_similarity, llm_disabled, panic_threshold or rate_limited, or
\* the rag_disabled response) starts no generative call, no synchronous and
\* no detached judge call, and its response reports zero tokens and cost 0.
C15_NoInvocationNoCost ==
    \A r \in Requests :
        NotInvoked(r) =>
            /\ stat[r].ngen = 0 /\ stat[r].njudge = 0 /\ stat[r].nbg = 0
            /\ gen[r] = NoGeneration
            /\ resp[r].status \in {"vector_only", "rag_disabled"}
            /\ resp[r].code = 200
            /\ resp[r].tokens = "zero" /\ resp[r].cost = "zero"
            /\ resp[r].status = "vector_only" =>
                  dec[r].skip_reason[1] \in
                      {"high_similarity", "llm_disabled", "panic_threshold",
                       "rate_limited"}

\* C15 witness: a request that asked for the model explicitly was stopped
\* by the rate limit and answered from retrieval at no cost.
C15_Witness ==
    \E r \in Requests :
        /\ NotInvoked(r)
        /\ dec[r].invocation_reason = <<"explicit_request">>
        /\ dec[r].skip_reason = <<"rate_limited">>
        /\ resp[r].tokens = "zero" /\ resp[r].cost = "zero"

\* C16: when retrieval is disabled, the request gets the rag_disabled
\* response with the router not evaluated and no limiter method called,
\* unless ENABLE_LLM_GENERATION is true and SAFE_MODE is false; then it is
\* routed (step 2) with empty context.
C16_DisabledRetrieval ==
    \A r \in Requests :
        (rpc[r] \in {"generating", "judging", "done"}
         /\ rag[r].method = "disabled") =>
            IF cfg.ENABLE_LLM_GENERATION /\ ~cfg.SAFE_MODE
            THEN /\ dec[r].routed
                 /\ ~rag[r].context
                 /\ resp[r].status # "rag_disabled"
                 /\ dec[r].invocation_reason # None
            ELSE /\ rpc[r] = "done"
                 /\ resp[r].status = "rag_disabled"
                 /\ dec[r] = NoDecision
                 /\ stat[r] = NoStat

\* C16 witness: with generation enabled but SAFE_MODE on, a request that
\* asked for the model explicitly got the rag_disabled response.
C16_Witness ==
    \E r \in Requests :
        /\ rpc[r] = "done" /\ rag[r].method = "disabled"
        /\ cfg.ENABLE_LLM_GENERATION /\ cfg.SAFE_MODE
        /\ req[r].needs_reasoning
        /\ resp[r].status = "rag_disabled"
        /\ stat[r].limiter = <<>>

\* C17: outside hallucination test mode a request whose generative call
\* succeeded creates one detached judge task and returns success with the
\* answer and the heuristic score without ever awaiting the judge, whether
\* or not that task has ended.
C17_DetachedJudge ==
    \A r \in Requests :
        /\ rpc[r] = "judging" => req[r].test_mode = "hallucination"
        /\ (rpc[r] = "done" /\ gen[r].outcome = "ok"
            /\ body[r].test_mode # "hallucination") =>
              /\ resp[r].status = "success" /\ resp[r].code = 200
              /\ resp[r].answer = "llm_answer"
              /\ resp[r].hallucination_score = gen[r].heuristic
              /\ stat[r].njudge = 0 /\ stat[r].nbg = 1
              /\ gen[r].judge = NoJudgeResponse

\* C17 witness: a request returns success while its detached judge task
\* has not ended.
C17_Witness ==
    \E r \in Requests :
        /\ rpc[r] = "done" /\ gen[r].outcome = "ok"
        /\ req[r].test_mode = "cost"
        /\ resp[r].status = "success"
        /\ stat[r].nbg = 1 /\ bg_tasks >= 1

\* C18: a generative call that runs into its timeout (LLM_TIMEOUT_SECONDS,
\* or 45 s in cost test mode) ends the request with error kind timeout and
\* HTTP 504; the call was made once, and no tokens, cost, judge call or
\* response follow.
C18_GenerationTimeout ==
    \A r \in Requests :
        (rpc[r] = "done" /\ gen[r].outcome = "TimeoutError") =>
            /\ gen[r].timeout_val =
                  IF body[r].test_mode = "cost" THEN 45 ELSE 30
            /\ resp[r].status = "error" /\ resp[r].code = 504
            /\ resp[r].error = "timeout"
            /\ stat[r].ngen = 1
            /\ stat[r].njudge = 0 /\ stat[r].nbg = 0
            /\ resp[r].tokens = "none" /\ resp[r].cost = "none"
            /\ resp[r].answer = "none"

\* C18 witness: a cost test request timed out after 45 s.
C18_Witness ==
    \E r \in Requests :
        /\ rpc[r] = "done" /\ gen[r].outcome = "TimeoutError"
        /\ req[r].test_mode = "cost" /\ gen[r].timeout_val = 45
        /\ resp[r].code = 504

\* a request that awaits its generative call gets past it
GenerationEnds ==
    \A r \in Requests : (rpc[r] = "generating") ~> (rpc[r] # "generating")

\* C19: a request that awaits the synchronous judge eventually gets its
\* response, even if the judge call never returns.
C19_JudgeCannotHang ==
    \A r \in Requests : (rpc[r] = "judging") ~> (rpc[r] = "done")

\* C20: a failed generative call ends the request with the error kind of
\* its failure type (quota_exceeded/429, timeout/504, api_error/500), and
\* every error an /ask request ends with carries an error kind, a message
\* and the request identifier.
C20_TypedErrors ==
    \A r \in Requests :
        rpc[r] = "done" =>
            /\ gen[r].outcome = "ResourceExhausted" =>
                  resp[r].error = "quota_exceeded" /\ resp[r].code = 429
            /\ gen[r].outcome \in {"DeadlineExceeded", "TimeoutError"} =>
                  resp[r].error = "timeout" /\ resp[r].code = 504
            /\ gen[r].outcome = "GoogleAPICallError" =>
                  resp[r].error = "api_error" /\ resp[r].code = 500
            /\ resp[r].status = "error" =>
                  resp[r].detail = {"error", "message", "request_id"}

(* ------------------------- retrieval failures --------------------------- *)

\* C21: whenever the vector backend was consulted and failed (no store, the
\* 10 second timeout, an exception, an empty result list), the request got a
\* RagResult with method "fallback" and went on to routing
C21_RetrievalFailureFallsBack ==
    \A r \in Requests :
        (rpc[r] \in {"generating", "judging", "done"}
         /\ retrieval[r].kind \in BackendFailures)
        => /\ rag[r].method = "fallback"
           /\ dec[r].routed
           /\ resp[r].status # "rag_disabled"

\* a request whose vector search timed out, routed on the keyword fallback
C21_Witness ==
    \E r \in Requests :
        /\ rpc[r] = "generating"
        /\ retrieval[r].kind = "timeout"
        /\ rag[r].method = "fallback"
        /\ rag[r].best_score = 50
        /\ dec[r].routed

(* ------------------------- escalation signals --------------------------- *)

\* C22: whenever the judge produced a verdict, create_incident was called
\* exactly when hallucination_score >= 0.7 and create_case exactly when
\* grounding_coverage < 0.6
C22_EscalationSignals ==
    \A r \in Requests :
        (rpc[r] = "done" /\ gen[r].verdict.some)
        => /\ (gen[r].effects.create_incident > 0
               <=> gen[r].verdict.hallucination_score >= HIGH_RISK_SCORE)
           /\ (gen[r].effects.create_case > 0
               <=> gen[r].verdict.grounding_coverage < LOW_GROUNDING_COVERAGE)

(* ---------------------- order of two requests --------------------------- *)

\* both orders leave the same retained call count and the same outcomes
LimiterCommutes ==
    /\ twins.ab.count = twins.ba.count
    /\ {twins.ab.allowed[q] : q \in TwinRequests}
           = {twins.ba.allowed[q] : q \in TwinRequests}

\* both orders leave the same breaker state and failure counter and the
\* same set of outcomes
BreakerCommutes ==
    /\ twins.ab.state = twins.ba.state
    /\ twins.ab.failure_count = twins.ba.failure_count
    /\ {twins.ab.outcome[q] : q \in TwinRequests}
           = {twins.ba.outcome[q] : q \in TwinRequests}

\* the breaker is CLOSED and one more failure does not open it, or it is
\* OPEN and still cooling down
OrderInsensitive ==
    \/ state = "CLOSED" /\ ~threshold_reached(failure_count + 1,
                                              failure_threshold)
    \/ state = "OPEN" /\ ~cooldown_elapsed(last_failure_time, clock, timeout)

\* C23 as stated: serving two requests in either order (two acquisitions on
\* the limiter, a succeeding and a failing wrapped call on the breaker)
\* leaves the same retained call count, breaker state and failure counter
\* and the same set of outcomes
C23_Commutative ==
    twins.phase = "swapped" => LimiterCommutes /\ BreakerCommutes

\* C23 amended: the two acquisitions always commute; the succeeding and the
\* failing wrapped call commute exactly when the breaker is CLOSED below
\* failure_threshold - 1 failures or OPEN within its cooldown
C23_CommutesUnlessTripping ==
    twins.phase = "swapped"
    => /\ LimiterCommutes
       /\ BreakerCommutes <=> OrderInsensitive

\* two requests met a limiter with one free slot and a CLOSED breaker with
\* one earlier failure out of three: one acquisition allowed, one refused,
\* the counter at 2 in both orders
C23_Witness ==
    /\ twins.phase = "swapped"
    /\ state = "CLOSED" /\ failure_count = 1 /\ failure_threshold = 3
    /\ twins.ab.failure_count = 2 /\ twins.ba.failure_count = 2
    /\ twins.ab.outcome = twins.ba.outcome
    /\ twins.ab.allowed["A"] /\ ~twins.ab.allowed["B"]
    /\ twins.ba.allowed["B"] /\ ~twins.ba.allowed["A"]

(* ------------------------------- cost ----------------------------------- *)

\* C24: calculate_cost returns input_tokens x 0.075/1e6 + output_tokens x
\* 0.30/1e6 rounded to 9 decimals (here in units of 1e-9 USD), for the
\* configured model and for an unknown one; 1,000,000 + 1,000,000 tokens
\* cost 0.375 USD and no tokens cost nothing
C24_CostExact ==
    costed.called
    => /\ costed.cost = 75 * costed.input_tokens + 300 * costed.output_tokens
       /\ (costed.input_tokens = 1000000 /\ costed.output_tokens = 1000000)
              => costed.cost = 375000000
       /\ (costed.input_tokens = 0 /\ costed.output_tokens = 0)
              => costed.cost = 0

\* one million input and one million output tokens of a model that is not
\* in the pricing map were costed at 0.375 USD
C24_Witness ==
    /\ costed.called
    /\ costed.model \notin DOMAIN GEMINI_PRICING_MAP
    /\ costed.input_tokens = 1000000 /\ costed.output_tokens = 1000000
    /\ costed.cost = 375000000

(* --------------------------- security scan ------------------------------ *)

\* the request objects that differ from rq only in what the security scan
\* finds in the question
ScanTwins(rq) ==
    {[rq EXCEPT !.question = q] :
         q \in {x \in Questions : x.keyword = rq.question.keyword}}

\* this step leaves request r, the limiter and the response as the handler
\* leaves them for request object rq and retrieval result rg
RoutedAs(r, rq, rg) ==
    IF is_disabled(rg) /\ ~forced_without_retrieval(cfg)
    THEN /\ resp'[r].status = "rag_disabled"
         /\ timestamps' = timestamps
    ELSE LET g == guardrails(route(rq, rg), cfg, timestamps, clock,
                             max_calls, window_seconds)
         IN  /\ dec'[r].should_invoke = g.should_invoke
             /\ dec'[r].invocation_reason = g.invocation_reason
             /\ dec'[r].skip_reason = g.skip_reason
             /\ dec'[r].allowed = g.allowed
             /\ timestamps' = current_count(g.ts, clock, window_seconds).ts
             /\ IF g.should_invoke
                THEN rpc'[r] = "generating" /\ resp'[r] = NoResponse
                ELSE rpc'[r] = "done" /\ resp'[r].status = "vector_only"

\* C25: when a request leaves retrieval, its routing decision, its effect
\* on the limiter and its response status are those of every request that
\* differs from it only in the outcome of the security scan
C25_ScanDoesNotInterfere ==
    [][\A r \in Requests :
          (rpc[r] = "retrieving" /\ rpc'[r] # "retrieving")
          => \A tw \in ScanTwins(req[r]) : RoutedAs(r, tw, rag'[r])]_vars

\* a question flagged as suspicious (risk 0.6) was sent to the generative
\* model on the explicit request of its sender
C25_Witness ==
    \E r \in Requests :
        /\ scan[r].is_suspicious
        /\ scan[r].injection_risk_score = 60
        /\ rpc[r] = "generating"
        /\ dec[r].should_invoke
        /\ dec[r].allowed

(* ------------------------ the retained timestamps ----------------------- *)

\* the entries of ts that are at most w old at time now, in their order
Unexpired(ts, now, w) == SelectSeq(ts, LAMBDA e : e >= now - w)

\* C26: immediately after an access to the limiter at time now, by any of
\* its five methods, every retained timestamp lies in
\* [now - window_seconds, now], the timestamps are in insertion order, and
\* every timestamp that was held before and is at most window_seconds old
\* (exactly window_seconds included) is still held and counted
C26_RetainedWithinWindow ==
    (access.op # "none" /\ clock = access.now)
    => /\ \A i \in DOMAIN timestamps :
              /\ timestamps[i] >= access.now - window_seconds
              /\ timestamps[i] <= access.now
       /\ \A i, j \in DOMAIN timestamps :
              i < j => timestamps[i] <= timestamps[j]
       /\ \E tail \in {<<>>, <<access.now>>} :
              timestamps
                  = Unexpired(access.before, access.now, window_seconds)
                    \o tail
       /\ access.op = "current_count" => access.res = Len(timestamps)

\* current_count() purged an expired timestamp and kept and counted one
\* that is exactly window_seconds old
C26_Witness ==
    /\ access.op = "current_count"
    /\ clock = access.now
    /\ Len(access.before) = 2
    /\ access.before[1] < access.now - window_seconds
    /\ timestamps = <<access.now - window_seconds>>
    /\ access.res = 1

(* ------------------------- what records a call ------------------------- *)

\* request r leaves retrieval in this step
LeavesRetrieval(r) == rpc[r] = "retrieving" /\ rpc'[r] # "retrieving"

\* request r ends in this step without reaching is_allowed()
EndsBeforeRateLimit(r) ==
    /\ LeavesRetrieval(r)
    /\ \/ resp'[r].status = "rag_disabled"
       \/ dec'[r].skip_reason # None
          /\ dec'[r].skip_reason[1] \in {"high_similarity", "llm_disabled",
                                        "panic_threshold"}

\* C27: the deque of recorded calls gains an entry only in a step in which
\* is_allowed() returned True at the rate-limit guardrail; every other step,
\* whatever it calls of is_panic_threshold, usage_percentage, current_count
\* and emit_metrics, leaves the deque as it was or purged of its expired
\* entries, and so does a request that ends with high_similarity,
\* rag_disabled, llm_disabled or panic_threshold
C27_OnlyIsAllowedRecords ==
    [][LET kept == cleanup_old_timestamps(timestamps, clock - window_seconds)
       IN  /\ (\A r \in Requests : ~LeavesRetrieval(r))
                  => timestamps' = timestamps
           /\ \A r \in Requests :
                  LeavesRetrieval(r)
                  => IF dec'[r].allowed
                     THEN /\ timestamps' = Append(kept, clock)
                          /\ dec'[r].evaluated
                                 = <<"kill_switch", "panic", "rate_limit">>
                          /\ dec'[r].should_invoke
                     ELSE timestamps' \in {timestamps, kept}
           /\ \A r \in Requests :
                  EndsBeforeRateLimit(r)
                  => /\ ~dec'[r].allowed
                     /\ timestamps' \in {timestamps, kept}
                     /\ accepted' = accepted]_vars

\* a request was skipped at the panic threshold after is_panic_threshold and
\* emit_metrics ran on a limiter holding a recorded call, which is still
\* the only one
C27_Witness ==
    \E r \in Requests :
        /\ rpc[r] = "done"
        /\ dec[r].skip_reason = <<"panic_threshold">>
        /\ stat[r].limiter = <<"is_panic_threshold", "emit_metrics">>
        /\ Len(timestamps) = 1
        /\ Len(accepted) = 1

\* C28: an invocation that raises while the breaker is HALF_OPEN increments
\* failure_count, sets last_failure_time to the time of the call and leaves
\* the breaker OPEN; every later probe (an invocation made from OPEN) comes
\* more than timeout after last_failure_time, hence more than timeout after
\* the latest failed probe.
C28_FailedProbeReopens ==
    /\ (bcall.outcome = "raised" /\ bcall.during = "HALF_OPEN") =>
          /\ failure_count = bcall.pre_count + 1
          /\ last_failure_time = bcall.t
          /\ state = "OPEN"
    /\ (bcall.invoked /\ bcall.pre_state = "OPEN") =>
          /\ bcall.t - bcall.pre_lft > timeout
          /\ bcall.pre_probe # NoTime => bcall.t - bcall.pre_probe > timeout
    /\ (state = "OPEN" /\ bcall.failed_probe # NoTime) =>
          last_failure_time >= bcall.failed_probe

\* C28 witness: a probe raised and re-opened the breaker, and the next probe
\* was made timeout + 1 later.
C28_Witness ==
    /\ bcall.pre_probe # NoTime
    /\ bcall.pre_state = "OPEN" /\ bcall.invoked
    /\ bcall.pre_lft = bcall.pre_probe
    /\ bcall.t - bcall.pre_probe = timeout + 1
    /\ bcall.pre_count = failure_threshold + 1

\* C29 as stated: whenever the breaker is OPEN, last_failure_time is set and
\* less than timeout has passed since it.
C29_OpenOnlyWithinCooldown ==
    state = "OPEN" =>
        /\ last_failure_time # NoTime
        /\ clock - last_failure_time < timeout

\* C29 amended: whenever the breaker is OPEN, last_failure_time is set and
\* not in the future; a call that finds the breaker OPEN is rejected
\* exactly when no more than timeout has passed since last_failure_time,
\* and one made later runs the function with the breaker HALF_OPEN and
\* leaves it CLOSED or OPEN with last_failure_time the time of that call.
C29_OpenUntilNextCall ==
    /\ state = "OPEN" =>
          /\ last_failure_time # NoTime
          /\ last_failure_time <= clock
    /\ (bcall.outcome # "none" /\ bcall.pre_state = "OPEN") =>
          /\ bcall.outcome = "rejected" <=>
                bcall.t - bcall.pre_lft <= timeout
          /\ bcall.outcome # "rejected" =>
                /\ bcall.during = "HALF_OPEN"
                /\ \/ state = "CLOSED"
                   \/ state = "OPEN" /\ last_failure_time = bcall.t

\* C29 witness: no wrapper call is running and the breaker is still OPEN
\* more than timeout after its last failure.
C29_Witness ==
    /\ wpc = "idle"
    /\ state = "OPEN"
    /\ clock - last_failure_time > timeout

\* C30: when a failing invocation moves the breaker from CLOSED to OPEN,
\* the latest failure_threshold invocations of the wrapped function all
\* raised, with no invocation that returned between them.
C30_ConsecutiveFailures ==
    (bcall.outcome = "raised" /\ bcall.pre_state = "CLOSED"
     /\ state = "OPEN") =>
        bcall.streak >= failure_threshold

\* initial_delay * backoff_factor ** (k - 1)
RECURSIVE BackoffDelay(_)
BackoffDelay(k) ==
    IF k <= 1 THEN InitialDelay ELSE BackoffFactor * BackoffDelay(k - 1)

\* attempts made so far by the running or last wrapper call
Attempts == wrun.invoked + wrun.rejected

\* what holds at every point of a wrapper call
RetryBounded ==
    /\ Attempts <= max_retries
    /\ wrun.invoked <= max_retries
    /\ wrun.result = "value" =>
          /\ wpc = "idle"
          /\ bcall.outcome = "returned"
    /\ Len(wrun.sleeps) = wrun.slept
    /\ wrun.slept <= Attempts
    /\ wrun.slept < max_retries \/ max_retries = 0
    /\ wpc = "sleep" => wrun.slept = Attempts - 1 /\ Attempts < max_retries
    /\ (wpc = "idle" /\ Attempts > 0) => wrun.slept = Attempts - 1
    /\ (wpc = "loop" /\ Attempts = max_retries /\ max_retries > 0) =>
          wrun.slept = Attempts - 1
    /\ \A k \in 1..Len(wrun.sleeps) : wrun.sleeps[k] = BackoffDelay(k)

\* C31: a call of the wrapper ends; it makes at most max_retries attempts
\* and invokes the wrapped function at most max_retries times, makes no
\* attempt after one that returned, sleeps once between two attempts and
\* not after the last one, and its k-th sleep lasts
\* initial_delay * backoff_factor^(k-1).
C31_RetryTerminates ==
    /\ []RetryBounded
    /\ (wpc # "idle") ~> (wpc = "idle")

\* C31 witness: a wrapper call returned the result of its third attempt
\* after sleeping 1 and then 2 delays.
C31_Witness ==
    /\ wpc = "idle" /\ wrun.result = "value"
    /\ max_retries = 3
    /\ Attempts = 3
    /\ wrun.sleeps = <<InitialDelay, InitialDelay * BackoffFactor>>

\* the first balanced {...} part of a text: from the first "{" to the "}"
\* that closes it; empty if there is none
RECURSIVE closing_brace(_, _, _)
closing_brace(text, i, depth) ==
    IF i > Len(text) THEN 0
    ELSE IF text[i] = "{" THEN closing_brace(text, i + 1, depth + 1)
    ELSE IF text[i] = "}"
    THEN IF depth = 1 THEN i ELSE closing_brace(text, i + 1, depth - 1)
    ELSE closing_brace(text, i + 1, depth)
first_balanced(text) ==
    IF find_open(text) = 0 THEN <<>>
    ELSE SubSeq(text, find_open(text),
                closing_brace(text, find_open(text), 0))

\* the object the judge's text yields when the whole text, or else its
\* first balanced {...} part, is parsed
BalancedObject(text) ==
    IF json_loads(text).ok THEN json_loads(text)
    ELSE json_loads(first_balanced(text))

\* C32: a run of the judge never ends with an exception; it returns a
\* verdict exactly when the model call succeeded with usage metadata, the
\* text or else its first balanced {...} part parses to an object, and the
\* scores convert to numbers; otherwise it returns None.
C32_NeverRaisesReparsesBalanced ==
    parsed.called =>
        /\ ~parsed.escapes
        /\ parsed.verdict.some <=>
              /\ ~parsed.raises /\ parsed.usage
              /\ BalancedObject(parsed.text).ok
              /\ BalancedObject(parsed.text).object
              /\ BalancedObject(parsed.text).members =>
                    (parsed.hs # NoScore /\ parsed.gc # NoScore)

\* no thread is inside CircuitBreaker.call
NoCallInProgress == \A t \in Threads : caller[t].pc = "idle"

\* C33: with calls running concurrently, whenever no call is in progress
\* the breaker is CLOSED with failure_count below failure_threshold or OPEN
\* with failure_count at or above it, and as long as failure_count was
\* never reset it equals the number of invocations that raised.
C33_MutuallyExclusive ==
    NoCallInProgress =>
        /\ state = "CLOSED" => failure_count < failure_threshold
        /\ state = "OPEN" => failure_count >= failure_threshold
        /\ state # "HALF_OPEN"
        /\ tally.resets = 0 => failure_count = tally.raised

\* judge calls made for a request, awaited or detached
JudgeCalls(r) == stat[r].njudge + stat[r].nbg

\* what a request has behind it at each point of the handler
StageOrder ==
    \A r \in Requests :
        /\ rag[r] # NoRag => scan[r] # NoScan
        /\ dec[r].routed => rag[r] # NoRag
        /\ stat[r].ngen >= 1 => dec[r].routed /\ dec[r].should_invoke
        /\ stat[r].ngen <= 1
        /\ JudgeCalls(r) <= 1
        /\ JudgeCalls(r) = 1 =>
              stat[r].ngen = 1 /\ gen[r].outcome = "ok"
        /\ rpc[r] = "retrieving" =>
              /\ scan[r] # NoScan /\ rag[r] = NoRag
              /\ stat[r].ngen = 0 /\ JudgeCalls(r) = 0
        /\ rpc[r] = "generating" =>
              /\ stat[r].ngen = 1 /\ gen[r].outcome = "none"
              /\ JudgeCalls(r) = 0
        /\ rpc[r] = "judging" => stat[r].njudge = 1

\* the step at which each stage of a request happens
StageSteps ==
    \A r \in Requests :
        /\ (scan'[r] # scan[r] /\ scan'[r] # NoScan) =>
              rpc[r] = "idle" /\ rpc'[r] = "retrieving"
        /\ (rag'[r] # rag[r] /\ rag'[r] # NoRag) =>
              rpc[r] = "retrieving" /\ scan[r] # NoScan
        /\ stat'[r].ngen > stat[r].ngen =>
              /\ rpc[r] = "retrieving" /\ rpc'[r] = "generating"
              /\ rag'[r] # NoRag /\ dec'[r].routed
              /\ stat[r].ngen = 0
        /\ JudgeCalls(r)' > JudgeCalls(r) =>
              /\ rpc[r] = "generating"
              /\ gen'[r].outcome = "ok"
              /\ JudgeCalls(r) = 0

\* C34: a request is scanned before its retrieval, retrieved before it is
\* routed, routed before its generative call and judged only after that
\* call; it makes at most one generative call and at most one judge call,
\* and a judge call only after a generative call that returned with usage
\* metadata.
C34_StagesInOrder ==
    /\ []StageOrder
    /\ [][StageSteps]_vars

\* C34 witness: a scanned request with a retrieval result was routed to the
\* model, made its one generative call and its one judge call, and has its
\* response.
C34_Witness ==
    \E r \in Requests :
        /\ rpc[r] = "done"
        /\ scan[r] # NoScan /\ rag[r] # NoRag /\ dec[r].routed
        /\ stat[r].ngen = 1 /\ stat[r].njudge = 1
        /\ gen[r].verdict.some

\* C35: the max_output_tokens sent with an answer call is at most
\* LLM_MAX_OUTPUT_TOKENS_CAP, for every max_tokens of the request and every
\* test mode; it is the request's max_tokens (the configured default if
\* none is given) when that is within the cap, and cost test mode sends
\* min(2800, cap).
C35_OutputTokensCapped ==
    capped.built =>
        /\ capped.max_output_tokens <= capped.LLM_MAX_OUTPUT_TOKENS_CAP
        /\ capped.test_mode = "cost" =>
              capped.max_output_tokens =
                  IF 2800 <= capped.LLM_MAX_OUTPUT_TOKENS_CAP THEN 2800
                  ELSE capped.LLM_MAX_OUTPUT_TOKENS_CAP
        /\ (capped.test_mode # "cost" /\ capped.max_tokens # Missing
            /\ capped.max_tokens <= capped.LLM_MAX_OUTPUT_TOKENS_CAP) =>
              capped.max_output_tokens = capped.max_tokens

\* C35 witness: a cost test request asking for 8192 tokens under a cap of
\* 1024 was sent with 1024.
C35_Witness ==
    /\ capped.built
    /\ capped.test_mode = "cost" /\ capped.max_tokens = 8192
    /\ capped.LLM_MAX_OUTPUT_TOKENS_CAP = 1024
    /\ capped.max_output_tokens = 1024

\* C36: with integer max_calls >= 1 and a panic threshold in (0, 1], no
\* request is ever skipped as rate_limited, a request is accepted only
\* while usage is below the threshold, and the retained count never exceeds
\* ceil(threshold * max_calls); a rate_limited skip happens only with
\* max_calls = 0 or a threshold above 1
PanicCeiling == (cfg.LLM_PANIC_THRESHOLD * max_calls + 99) \div 100

C36_PanicPreemptsRateLimit ==
    /\ (max_calls >= 1 /\ cfg.LLM_PANIC_THRESHOLD > 0
                       /\ cfg.LLM_PANIC_THRESHOLD <= 100)
       => /\ guarded.skip_reason # <<"rate_limited">>
          /\ guarded.should_invoke
             => guarded.before * 100 < cfg.LLM_PANIC_THRESHOLD * max_calls
          /\ Len(timestamps) <= PanicCeiling
    /\ guarded.skip_reason = <<"rate_limited">>
       => (max_calls = 0 \/ cfg.LLM_PANIC_THRESHOLD > 100)

\* a request is skipped for panic while the limiter still has room: two of
\* four calls retained under a threshold of one half
C36_Witness ==
    /\ guarded.skip_reason = <<"panic_threshold">>
    /\ cfg.LLM_PANIC_THRESHOLD > 0
    /\ Len(timestamps) = PanicCeiling
    /\ PanicCeiling < max_calls

\* rate_limited is reported once the threshold is above 1
C36_RateLimitedReached ==
    /\ guarded.skip_reason = <<"rate_limited">>
    /\ max_calls >= 1

\* C37: for a breaker used sequentially with failure_threshold >= 1, CLOSED
\* implies failure_count < failure_threshold; OPEN or HALF_OPEN (the state
\* a probe runs in) implies failure_count >= failure_threshold and a set
\* last_failure_time; and failure_count never decreases except by the reset
\* to 0 of a successful HALF_OPEN probe
BreakerStateInvariant ==
    /\ failure_threshold >= 1
    /\ state \in {"CLOSED", "OPEN", "HALF_OPEN"}
    /\ state = "CLOSED" => failure_count < failure_threshold
    /\ state \in {"OPEN", "HALF_OPEN"} =>
          /\ failure_count >= failure_threshold
          /\ last_failure_time # NoTime
    /\ bcall.during = "HALF_OPEN" =>
          /\ bcall.pre_state = "OPEN"
          /\ bcall.pre_count >= failure_threshold
          /\ bcall.pre_lft # NoTime

CountOnlyResetByProbe ==
    \/ failure_count' >= failure_count
    \/ /\ failure_count' = 0
       /\ bcall'.during = "HALF_OPEN"
       /\ bcall'.outcome = "returned"
       /\ state' = "CLOSED"

C37_SequentialInvariants ==
    /\ []BreakerStateInvariant
    /\ [][CountOnlyResetByProbe]_vars

\* a successful probe has just reset a failure_count of two or more
C37_Witness ==
    /\ bcall.during = "HALF_OPEN"
    /\ bcall.outcome = "returned"
    /\ bcall.pre_count >= 2
    /\ failure_count = 0
    /\ state = "CLOSED"

\* C38: an OPEN breaker cannot stay OPEN forever under continued call
\* attempts: while it is OPEN last_failure_time moves only when a probe
\* really fails, never on a rejected call; a call attempted more than
\* timeout after the last real failure runs HALF_OPEN and invokes the
\* wrapped function, and closes the breaker when the function returns; and
\* an attempt the retry loop has pending at such a time is eventually made
RejectionKeepsFailureTime ==
    (state = "OPEN" /\ last_failure_time' # last_failure_time) =>
        /\ bcall'.outcome = "raised"
        /\ bcall'.during = "HALF_OPEN"
        /\ bcall'.invoked
        /\ last_failure_time' = clock

LateCallProbes ==
    (bcall.outcome # "none" /\ bcall.pre_state = "OPEN"
     /\ bcall.t - bcall.pre_lft > timeout) =>
        /\ bcall.during = "HALF_OPEN"
        /\ bcall.invoked
        /\ bcall.outcome # "rejected"
        /\ (bcall.outcome = "returned") <=> (state = "CLOSED")
        /\ (bcall.outcome = "raised") <=> (state = "OPEN")

\* the retry loop is about to call an OPEN breaker whose cooldown is over
LateAttemptPending ==
    /\ wpc = "loop"
    /\ attempt < max_retries
    /\ state = "OPEN"
    /\ cooldown_elapsed(last_failure_time, clock, timeout)

ProbeMade ==
    /\ bcall.during = "HALF_OPEN"
    /\ bcall.invoked
    /\ bcall.pre_state = "OPEN"
    /\ bcall.t - bcall.pre_lft > timeout

C38_OpenDoesNotPersist ==
    /\ []LateCallProbes
    /\ [][RejectionKeepsFailureTime]_vars
    /\ LateAttemptPending ~> (ProbeMade /\ wpc # "loop")

\* inside one wrapper call an attempt was rejected by the OPEN breaker, the
\* backoff sleep outlasted the cooldown, and the next attempt probed and
\* closed the breaker
C38_Witness ==
    /\ wrun.rejected >= 1
    /\ bcall.pre_state = "OPEN"
    /\ bcall.t - bcall.pre_lft > timeout
    /\ bcall.during = "HALF_OPEN"
    /\ bcall.outcome = "returned"
    /\ state = "CLOSED"

\* C39: each request answered without invoking the generative model
\* increments llm.generation.skipped exactly once, tagged with the one skip
\* reason that is reported for it
SkippedByDecision(r) ==
    rpc[r] = "done" /\ dec[r].routed /\ ~dec[r].should_invoke

C39_SkipRecordedOnce ==
    \A r \in Requests :
        SkippedByDecision(r) =>
            /\ Len(stat[r].skipped) = 1
            /\ stat[r].skipped[1] = dec[r].skip_reason[1]

\* the part of C39 that the code does satisfy: a request skipped by the
\* routing step alone (high similarity) is counted once
C39_RoutingSkipRecordedOnce ==
    \A r \in Requests :
        (SkippedByDecision(r) /\ dec[r].skip_reason[1] = "high_similarity")
            => stat[r].skipped = <<"high_similarity">>

\* C40: a judge response that parses as a JSON object without
\* hallucination_score and grounding_coverage still gives a verdict, with
\* score 0.0 and coverage 1.0; in synchronous mode that verdict never blocks
\* the answer and raises neither the high-risk nor the low-grounding signal
C40_MissingScoresDefault ==
    \A r \in Requests :
        JudgeGave(r, Missing, Missing) =>
            /\ gen[r].verdict.some
            /\ gen[r].verdict.hallucination_score = 0
            /\ gen[r].verdict.grounding_coverage = 100
            /\ ~must_block(gen[r].verdict)
            /\ resp[r].status = "success"
            /\ resp[r].answer = "llm_answer"
            /\ resp[r].hallucination_score = 0
            /\ gen[r].effects.metrics = {}
            /\ gen[r].effects.create_incident = 0
            /\ gen[r].effects.create_case = 0

\* a hallucination-test request whose synchronous judge answered with an
\* object that has neither score
C40_Witness ==
    \E r \in Requests :
        /\ JudgeGave(r, Missing, Missing)
        /\ req[r].test_mode = "hallucination"
        /\ resp[r].status = "success"

====
